---------------------------- MODULE Spec2Model ----------------------------
(***************************************************************************)
(* A model of the real-estate dashboard: the CSV ingestion pipeline (value *)
(* coercion cleanValue, header detection detectColumnMapping, the row      *)
(* transformer transformRow in its lenient and strict variants, and the    *)
(* pipeline processCSV that drives them), the filter engine (useFilters)   *)
(* and the KPI aggregator (calculateKPIs with its median and average).     *)
(*                                                                         *)
(* JavaScript strings are TLA+ strings, read one character at a time with  *)
(* SubSeq/Head/Tail.  A JavaScript value is a record tagged by t:          *)
(*   [t |-> "undefined"], [t |-> "string", s |-> ...],                     *)
(*   [t |-> "number", m |-> mantissa, e |-> decimal places]  (m / 10^e),   *)
(*   [t |-> "infinity", neg |-> BOOLEAN].                                  *)
(* Numbers are exact decimals: the rounding of IEEE doubles is not         *)
(* modelled, and the inputs stay far below 2^31.                           *)
(***************************************************************************)
EXTENDS Integers, Sequences, FiniteSets, TLC

VARIABLES
    pc,               \* where the run is: see the specifications below
    headers,          \* Object.keys(result.data[0]): the header strings, in file order
    rows,             \* result.data: one sequence of cell strings per data row
    mapping,          \* the ColumnMapping being built / in use
    hi,               \* index of the header the mapper's loop is at
    index,            \* index of the row processCSV's forEach is at (0-based, as in the code)
    transformedData,  \* processCSV's transformedData
    errors,           \* processCSV's errors
    settled,          \* what the promise of processCSV settled with
    out,              \* the value returned by the single call a specification makes
    argValue,         \* cleanValue's argument value
    argType,          \* cleanValue's argument type
    filterData,       \* useFilters' argument data: the Property list it is given
    filters,          \* useFilters' filters state
    kpiProperties,    \* calculateKPIs' argument properties
    now,              \* the clock and time zone calculateKPIs reads
    values,           \* median's argument
    comparables,      \* the comparable selectors' inputs: the subject and the record list
    aiQuery,          \* one AIService.queryData call: its arguments and what the request met
    csvData,          \* useCSVData's state and the upload it is running
    modal,            \* PropertyDetailModal's props and state, and the analyses it is running
    table,            \* PropertyTable's data prop and pagination state
    chat              \* AIChat's state and the queries it is waiting for

\* the state of the ingestion pipeline
ingestVars == <<headers, rows, mapping, hi, index, transformedData, errors, settled>>

\* the state of the dashboard: coercion call, filter engine, KPI aggregator
dashboardVars == <<argValue, argType, filterData, filters, kpiProperties, now, values>>

\* the state of the components around them
uiVars == <<comparables, aiQuery, csvData, modal, table, chat>>

vars == <<pc, headers, rows, mapping, hi, index, transformedData, errors, settled, out,
          argValue, argType, filterData, filters, kpiProperties, now, values,
          comparables, aiQuery, csvData, modal, table, chat>>

---------------------------------------------------------------------------
(* Bounds of the model. *)

MaxHeaders == 3     \* longest header list drawn for the mapper
MaxRows == 2        \* most data rows in a parsed file
MaxId == 2          \* number of distinct outcomes of Math.random() that are told apart
MaxCellLen == 2     \* longest cell text spelled out character by character for cleanValue
MaxData == 2        \* most records in the list useFilters is given
MaxProps == 3       \* most records in the list calculateKPIs is given
MaxValues == 4      \* longest list median is given

---------------------------------------------------------------------------
(* Strings, character by character. *)

Min(S) == CHOOSE x \in S : \A y \in S : x <= y

CharAt(s, i) == SubSeq(s, i, i)

UpperLetters == "ABCDEFGHIJKLMNOPQRSTUVWXYZ"
LowerLetters == "abcdefghijklmnopqrstuvwxyz"
Digits == "0123456789"

\* The characters that \s and String.prototype.trim treat as white space
\* (the ones that can be written in a cell of the model).
WhiteSpace == {" ", "\t", "\n", "\r"}

IsDigit(c) == \E i \in 1..10 : CharAt(Digits, i) = c

DigitVal(c) == (CHOOSE i \in 1..10 : CharAt(Digits, i) = c) - 1

toLowerCaseChar(c) ==
    IF \E i \in 1..26 : CharAt(UpperLetters, i) = c
    THEN CharAt(LowerLetters, CHOOSE i \in 1..26 : CharAt(UpperLetters, i) = c)
    ELSE c

RECURSIVE toLowerCase(_)
toLowerCase(s) ==
    IF s = "" THEN "" ELSE toLowerCaseChar(Head(s)) \o toLowerCase(Tail(s))

RECURSIVE trimStart(_)
trimStart(s) ==
    IF s = "" THEN ""
    ELSE IF Head(s) \in WhiteSpace THEN trimStart(Tail(s)) ELSE s

RECURSIVE trimEnd(_)
trimEnd(s) ==
    IF s = "" THEN ""
    ELSE IF CharAt(s, Len(s)) \in WhiteSpace
         THEN trimEnd(SubSeq(s, 1, Len(s) - 1))
         ELSE s

trim(s) == trimEnd(trimStart(s))

\* value.replace(/[$,\s]/g, '')
RECURSIVE stripCurrency(_)
stripCurrency(s) ==
    IF s = "" THEN ""
    ELSE IF Head(s) \in (WhiteSpace \cup {"$", ","})
         THEN stripCurrency(Tail(s))
         ELSE Head(s) \o stripCurrency(Tail(s))

---------------------------------------------------------------------------
(* JavaScript values. *)

Undefined == [t |-> "undefined"]
Str(s) == [t |-> "string", s |-> s]
Infinity(neg) == [t |-> "infinity", neg |-> neg]

RECURSIVE Pow10(_)
Pow10(n) == IF n = 0 THEN 1 ELSE 10 * Pow10(n - 1)

\* m / 10^e in lowest decimal terms, so that equal numbers are equal records.
RECURSIVE Num(_, _)
Num(m, e) ==
    IF e < 0 THEN Num(m * Pow10(0 - e), 0)
    ELSE IF e > 0 /\ m % 10 = 0 THEN Num(m \div 10, e - 1)
    ELSE [t |-> "number", m |-> m, e |-> e]

IsNumber(v) == v.t \in {"number", "infinity"}

\* v > 0 for a number v
Positive(v) ==
    \/ v.t = "number" /\ v.m > 0
    \/ v.t = "infinity" /\ ~v.neg

\* ToBoolean: undefined, "", 0 and -0 are falsy (cleanValue never returns NaN)
Truthy(v) ==
    CASE v.t = "undefined" -> FALSE
      [] v.t = "string" -> v.s # ""
      [] v.t = "number" -> v.m # 0
      [] OTHER -> TRUE

\* a || b
Or(a, b) == IF Truthy(a) THEN a ELSE b

---------------------------------------------------------------------------
(* parseFloat and new Date, as far as cells of the model exercise them. *)

NaN == [t |-> "NaN"]

\* how many leading characters of s are decimal digits
RECURSIVE DigitRun(_)
DigitRun(s) ==
    IF s = "" THEN 0
    ELSE IF IsDigit(Head(s)) THEN 1 + DigitRun(Tail(s)) ELSE 0

\* the number written by the first n characters of s (all of them digits)
RECURSIVE DigitsValue(_, _)
DigitsValue(s, n) ==
    IF n = 0 THEN 0
    ELSE 10 * DigitsValue(s, n - 1) + DigitVal(CharAt(s, n))

StartsWith(s, p) == Len(s) >= Len(p) /\ SubSeq(s, 1, Len(p)) = p

\* parseFloat(s) for s without leading white space: the longest prefix that
\* is a StrDecimalLiteral ([+-] Infinity | digits [. digits] [e [+-] digits]),
\* NaN when there is none.  What follows the prefix is ignored.  The scan is
\* written as one operator per part of the literal.

\* the exponent part: expStr is what follows the e; without a digit there
\* is no exponent and the e is ignored
applyExponent(mant, nf, expStr) ==
    IF expStr # "" /\ Head(expStr) = "-"
    THEN Num(mant, nf + DigitsValue(Tail(expStr), DigitRun(Tail(expStr))))
    ELSE IF expStr # "" /\ Head(expStr) = "+"
    THEN Num(mant, nf - DigitsValue(Tail(expStr), DigitRun(Tail(expStr))))
    ELSE Num(mant, nf - DigitsValue(expStr, DigitRun(expStr)))

\* mant / 10^nf has been read; rest is what follows it
parseExponent(mant, nf, rest) ==
    IF rest # "" /\ Head(rest) \in {"e", "E"}
    THEN applyExponent(mant, nf, Tail(rest))
    ELSE Num(mant, nf)

\* ni integer digits (worth intVal) and a point have been read; fracStr
\* follows the point and starts with nf digits
parseFracDigits(intVal, ni, fracStr, nf) ==
    IF ni + nf = 0 THEN NaN
    ELSE parseExponent(intVal * Pow10(nf) + DigitsValue(fracStr, nf), nf,
                       SubSeq(fracStr, nf + 1, Len(fracStr)))

\* ni integer digits (worth intVal) have been read; afterInt follows them
parseFraction(intVal, ni, afterInt) ==
    IF afterInt # "" /\ Head(afterInt) = "."
    THEN parseFracDigits(intVal, ni, Tail(afterInt), DigitRun(Tail(afterInt)))
    ELSE IF ni = 0 THEN NaN
    ELSE parseExponent(intVal, 0, afterInt)

parseDigits(body, ni) ==
    parseFraction(DigitsValue(body, ni), ni, SubSeq(body, ni + 1, Len(body)))

parseUnsigned(body) ==
    IF StartsWith(body, "Infinity") THEN Infinity(FALSE)
    ELSE parseDigits(body, DigitRun(body))

negate(v) ==
    CASE v.t = "number" -> Num(0 - v.m, v.e)
      [] v.t = "infinity" -> Infinity(~v.neg)
      [] OTHER -> v

parseFloat(s) ==
    IF s # "" /\ Head(s) = "-" THEN negate(parseUnsigned(Tail(s)))
    ELSE parseUnsigned(IF s # "" /\ Head(s) = "+" THEN Tail(s) ELSE s)

IsLeap(y) == (y % 4 = 0 /\ y % 100 # 0) \/ y % 400 = 0

DaysIn(mo, y) ==
    IF mo = 2 THEN (IF IsLeap(y) THEN 29 ELSE 28)
    ELSE IF mo \in {4, 6, 9, 11} THEN 30 ELSE 31

\* s is a date-only ISO 8601 string YYYY-MM-DD naming a day of the calendar
IsIsoDate(s) ==
    /\ Len(s) = 10
    /\ CharAt(s, 5) = "-" /\ CharAt(s, 8) = "-"
    /\ \A i \in {1, 2, 3, 4, 6, 7, 9, 10} : IsDigit(CharAt(s, i))
    /\ LET y == DigitsValue(SubSeq(s, 1, 4), 4)
           mo == DigitsValue(SubSeq(s, 6, 7), 2)
           d == DigitsValue(SubSeq(s, 9, 10), 2)
       IN  mo \in 1..12 /\ d \in 1..DaysIn(mo, y)

\* new Date(s).toISOString().split('T')[0], or NaN for an Invalid Date.
\* A date-only ISO string is read as UTC midnight and comes back unchanged.
\* Only blank cells, ISO dates and text that is no date occur in the model;
\* the legacy formats, whose reading depends on the engine and the time
\* zone, are not drawn.
isoDateOf(s) == IF IsIsoDate(s) THEN Str(s) ELSE NaN

---------------------------------------------------------------------------
(* cleanValue *)

cleanValue(value, type) ==
    IF ~Truthy(value) THEN Undefined
    ELSE IF trim(value.s) = "" THEN Undefined
    ELSE LET cleanedValue == trim(value.s) IN
         CASE type = "number" ->
                LET parsed == parseFloat(stripCurrency(cleanedValue))
                IN  IF parsed = NaN THEN Undefined ELSE parsed
           [] type = "date" ->
                LET date == isoDateOf(cleanedValue)
                IN  IF date = NaN THEN Undefined ELSE date
           [] OTHER -> Str(cleanedValue)

---------------------------------------------------------------------------
(* detectColumnMapping *)

\* The canonical fields, in the order Object.entries(COLUMN_PATTERNS) yields them.
FieldOrder ==
    << "address", "city", "state", "zipCode", "price", "listPrice", "salePrice",
       "beds", "baths", "sqft", "lotSize", "yearBuilt", "propertyType", "status",
       "daysOnMarket", "listDate", "saleDate", "hoaFees" >>

Fields == {FieldOrder[i] : i \in 1..Len(FieldOrder)}

\* Each pattern is /^(a|b|...)$/i over literal alternatives: the strings it
\* matches, once lower-cased, are exactly the alternatives.
COLUMN_PATTERNS ==
    [ address |-> {"address", "addr", "street", "property_address", "full_address",
                   "location", "property_location"},
      city |-> {"city", "municipality", "town"},
      state |-> {"state", "st", "province"},
      zipCode |-> {"zip", "zipcode", "zip_code", "postal", "postal_code", "zip code"},
      price |-> {"price", "list_price", "asking_price", "current_price", "sale_price",
                 "sold_price", "listing_price", "sold price", "listing price",
                 "orig. list price"},
      listPrice |-> {"list_price", "listing_price", "asking_price", "original_price",
                     "orig. list price", "listing price"},
      salePrice |-> {"sale_price", "sold_price", "final_price", "closing_price",
                     "sold price"},
      beds |-> {"beds", "bedrooms", "bed", "br", "bedroom", "total bedrooms",
                "overall bedrooms", "overall total bedrooms"},
      baths |-> {"baths", "bathrooms", "bath", "ba", "full_baths", "bathroom",
                 "total baths", "overall total baths"},
      sqft |-> {"sqft", "sq_ft", "square_feet", "living_area", "floor_area", "size",
                "sq.ft", "living_sqft", "main house sqft", "total sqft"},
      lotSize |-> {"lot_size", "lot_sqft", "lot_area", "land_area", "lot", "lot size",
                   "acres"},
      yearBuilt |-> {"year_built", "year", "built", "construction_year", "yr_built",
                     "year built"},
      propertyType |-> {"property_type", "type", "style", "home_type", "prop_type",
                        "property type", "house style", "realtor.com type"},
      status |-> {"status", "listing_status", "mls_status", "property_status"},
      daysOnMarket |-> {"days_on_market", "dom", "market_days", "days_market",
                        "days on market"},
      listDate |-> {"list_date", "listing_date", "date_listed", "listed_date",
                    "effective date"},
      saleDate |-> {"sale_date", "sold_date", "closing_date", "date_sold",
                    "close_date", "sold date"},
      hoaFees |-> {"hoa", "hoa_fee", "hoa_fees", "association_fee", "hoa_monthly"} ]

\* pattern.test(cleanHeader), the /i flag applied by lower-casing
patternTest(field, cleanHeader) == toLowerCase(cleanHeader) \in COLUMN_PATTERNS[field]

\* The literal MLS headers and the field each stands for.
exactAliases ==
    { <<"Overall Total Bedrooms", "beds">>, <<"Overall Total Baths", "baths">>,
      <<"Main House SqFt", "sqft">>, <<"Sold Price", "price">>,
      <<"Listing Price", "listPrice">>, <<"Orig. List Price", "listPrice">>,
      <<"Sold Date", "saleDate">>, <<"Effective Date", "listDate">>,
      <<"Status", "status">>, <<"Days on Market", "daysOnMarket">>,
      <<"Realtor.com Type", "propertyType">>, <<"Street", "address">>,
      <<"City", "city">>, <<"State", "state">>, <<"Zip Code", "zipCode">>,
      <<"Year Built", "yearBuilt">>, <<"Acres", "lotSize">> }

\* exactMatches[header], "" standing for undefined (no header of the model
\* is the name of a member of Object.prototype)
exactMatches(header) ==
    IF \E a \in exactAliases : a[1] = header
    THEN (CHOOSE a \in exactAliases : a[1] = header)[2]
    ELSE ""

\* A ColumnMapping gives every field its source header; "" is a field that
\* is absent from the mapping (the code reads it as mapping.field || '').
Unmapped == ""

emptyMapping == [f \in Fields |-> Unmapped]

\* one iteration of the first loop (lines 57-61)
exactStep(m, header) ==
    IF exactMatches(header) # ""
    THEN [m EXCEPT ![exactMatches(header)] = header]
    ELSE m

\* patternStep without the break: every unmapped field whose pattern
\* matches takes the header
patternStepNoBreak(m, header) ==
    [f \in Fields |->
        IF m[f] = Unmapped /\ patternTest(f, toLowerCase(trim(header)))
        THEN header ELSE m[f]]

\* one iteration of the second loop (lines 64-73): the first field, in
\* table order, that is still unmapped and whose pattern matches takes the
\* header, and the inner loop breaks.
patternStep(m, header) ==
    LET cleanHeader == toLowerCase(trim(header))
        hits == {i \in 1..Len(FieldOrder) :
                    /\ m[FieldOrder[i]] = Unmapped
                    /\ patternTest(FieldOrder[i], cleanHeader)}
    IN  IF hits = {} THEN m ELSE [m EXCEPT ![FieldOrder[Min(hits)]] = header]

\* The two loops as folds.  The mapping built so far is bound as a value
\* (mv) before the step reads it, so that it is computed once per header.
RECURSIVE exactPass(_, _)
exactPass(hs, n) ==
    IF n = 0 THEN emptyMapping
    ELSE CHOOSE r \in {exactStep(mv, hs[n]) : mv \in {exactPass(hs, n - 1)}} : TRUE

\* the mapping after both loops, the second having run over hs[1..n]
RECURSIVE patternPass(_, _)
patternPass(hs, n) ==
    IF n = 0 THEN exactPass(hs, Len(hs))
    ELSE CHOOSE r \in {patternStep(mv, hs[n]) : mv \in {patternPass(hs, n - 1)}} : TRUE

detectColumnMapping(hs) == patternPass(hs, Len(hs))

---------------------------------------------------------------------------
(* transformRow *)

Null == [t |-> "null"]

Zero == Num(0, 0)

\* the placeholder square footage of the lenient transformer
DefaultSqft == 1000

\* row[key] for a parsed row: the cell under header key, as a string, or
\* undefined when the row has no such key.  A row is the sequence of its
\* cells, aligned with the header list hs.
cell(row, hs, key) ==
    IF \E i \in 1..Len(hs) : hs[i] = key /\ i <= Len(row)
    THEN Str(row[CHOOSE i \in 1..Len(hs) : hs[i] = key /\ i <= Len(row)])
    ELSE Undefined

\* cleanValue(row[mapping.field || ''], type)
cleanField(row, hs, m, field, type) == cleanValue(cell(row, hs, m[field]), type)

\* !price || price <= 0
noPrice(price) == ~Truthy(price) \/ ~Positive(price)

\* the Property literal both variants build (lines 125-145); id is the
\* outcome of Math.random().toString(36).substr(2, 9)
buildProperty(row, hs, m, id, address, city, price, beds, baths, sqft, propertyType, status) ==
    [ id |-> id,
      address |-> Str(trim(address.s)),
      city |-> Str(trim(city.s)),
      state |-> cleanField(row, hs, m, "state", "string"),
      zipCode |-> cleanField(row, hs, m, "zipCode", "string"),
      price |-> price,
      listPrice |-> cleanField(row, hs, m, "listPrice", "number"),
      salePrice |-> cleanField(row, hs, m, "salePrice", "number"),
      beds |-> beds,
      baths |-> baths,
      sqft |-> sqft,
      lotSize |-> cleanField(row, hs, m, "lotSize", "number"),
      yearBuilt |-> cleanField(row, hs, m, "yearBuilt", "number"),
      propertyType |-> Or(propertyType, Str("Unknown")),
      status |-> Or(status, Str("Unknown")),
      daysOnMarket |-> cleanField(row, hs, m, "daysOnMarket", "number"),
      listDate |-> cleanField(row, hs, m, "listDate", "date"),
      saleDate |-> cleanField(row, hs, m, "saleDate", "date"),
      hoaFees |-> cleanField(row, hs, m, "hoaFees", "number") ]

\* The lenient transformer of csv-processor.ts.  Every cell Papa hands over
\* is a string, so nothing in the try block throws.
transformRow(row, hs, m, id) ==
    LET address == Or(Or(cell(row, hs, m["address"]), cell(row, hs, m["city"])),
                      Str("Unknown Address"))
        city == Or(cell(row, hs, m["city"]), Str("Unknown City"))
        price == Or(Or(cleanField(row, hs, m, "price", "number"),
                       cleanField(row, hs, m, "salePrice", "number")),
                    cleanField(row, hs, m, "listPrice", "number"))
        beds == Or(cleanField(row, hs, m, "beds", "number"), Zero)
        baths == Or(cleanField(row, hs, m, "baths", "number"), Zero)
        sqft == Or(cleanField(row, hs, m, "sqft", "number"), Num(DefaultSqft, 0))
        propertyType == Or(cleanField(row, hs, m, "propertyType", "string"),
                           Str("Single Family"))
        status == Or(cleanField(row, hs, m, "status", "string"), Str("Unknown"))
    IN  IF noPrice(price) THEN Null
        ELSE buildProperty(row, hs, m, id, address, city, price, beds, baths, sqft,
                           propertyType, status)

\* The strict transformer (the earlier csv-processor kept in the repository).
transformRowStrict(row, hs, m, id) ==
    LET address == cell(row, hs, m["address"])
        city == cell(row, hs, m["city"])
        price == cleanField(row, hs, m, "price", "number")
        beds == cleanField(row, hs, m, "beds", "number")
        baths == cleanField(row, hs, m, "baths", "number")
        sqft == cleanField(row, hs, m, "sqft", "number")
        propertyType == cleanField(row, hs, m, "propertyType", "string")
        status == cleanField(row, hs, m, "status", "string")
    IN  IF \/ ~Truthy(address) \/ ~Truthy(city) \/ ~Truthy(price)
           \/ ~Truthy(beds) \/ ~Truthy(baths) \/ ~Truthy(sqft)
        THEN Null
        ELSE buildProperty(row, hs, m, id, address, city, price, beds, baths, sqft,
                           propertyType, status)

\* the status values propertySchema admits
StatusEnum == {"Active", "Sold", "Pending", "Withdrawn", "C", "A", "SOLD", "Closed", "ACTIVE"}

---------------------------------------------------------------------------
(* calculateKPIs: the Sold subset and its size *)

\* the Sold subset without the MLS code C
soldPropertiesNoCode(properties) ==
    SelectSeq(properties, LAMBDA p : p.status.s \in {"Sold", "Closed", "SOLD"})

soldProperties(properties) ==
    SelectSeq(properties, LAMBDA p : p.status.s \in {"Sold", "C", "Closed", "SOLD"})

closedSalesCount(properties) ==
    IF Len(properties) = 0 THEN 0 ELSE Len(soldProperties(properties))

---------------------------------------------------------------------------
(* Arithmetic of calculateKPIs.  Its quotients need not be decimals, so the *)
(* numbers it computes are kept as reduced fractions n/d with d > 0.  The   *)
(* records it is run on hold finite numbers only.                           *)

Abs(x) == IF x < 0 THEN 0 - x ELSE x

RECURSIVE GCD(_, _)
GCD(a, b) == IF b = 0 THEN a ELSE GCD(b, a % b)

Reduced(n, d, g) == [t |-> "ratio", n |-> n \div g, d |-> d \div g]

\* n/d for d > 0, in lowest terms
Ratio(n, d) == Reduced(n, d, GCD(Abs(n), d))

Whole(n) == Ratio(n, 1)

\* the fraction a finite number value stands for
RatioOf(v) == Ratio(v.m, Pow10(v.e))

\* a + b
Plus(a, b) ==
    IF a = NaN \/ b = NaN THEN NaN
    ELSE Ratio(a.n * b.d + b.n * a.d, a.d * b.d)

\* a / b: 0/0 is NaN, x/0 is an infinity
Quot(a, b) ==
    IF a = NaN \/ b = NaN THEN NaN
    ELSE IF b.n = 0 THEN (IF a.n = 0 THEN NaN ELSE Infinity(a.n < 0))
    ELSE IF b.n < 0 THEN Ratio(0 - a.n * b.d, a.d * (0 - b.n))
    ELSE Ratio(a.n * b.d, a.d * b.n)

\* a * b
Times(a, b) == IF a = NaN \/ b = NaN THEN NaN ELSE Ratio(a.n * b.n, a.d * b.d)

\* (a, b) => a - b is negative
Before(a, b) == a.n * b.d < b.n * a.d

\* [...values].sort((a, b) => a - b): x put in its place in an ascending list
RECURSIVE insertSorted(_, _)
insertSorted(x, sorted) ==
    IF sorted = <<>> THEN <<x>>
    ELSE IF Before(x, Head(sorted)) THEN <<x>> \o sorted
    ELSE <<Head(sorted)>> \o insertSorted(x, Tail(sorted))

RECURSIVE sortAscending(_)
sortAscending(vs) ==
    IF vs = <<>> THEN <<>>
    ELSE insertSorted(vs[Len(vs)], sortAscending(SubSeq(vs, 1, Len(vs) - 1)))

\* values.reduce((sum, val) => sum + val, 0)
RECURSIVE sum(_)
sum(vs) == IF vs = <<>> THEN Whole(0) ELSE Plus(sum(SubSeq(vs, 1, Len(vs) - 1)), vs[Len(vs)])

\* the middle of a sorted list (lines 111-114); mid is Math.floor(length / 2)
middle(sorted, mid) ==
    IF Len(sorted) % 2 = 0
    THEN Quot(Plus(sorted[mid], sorted[mid + 1]), Whole(2))
    ELSE sorted[mid + 1]

\* median that reads the list as it was given, without sorting a copy
medianUnsorted(vs) ==
    IF Len(vs) = 0 THEN Whole(0) ELSE middle(vs, Len(vs) \div 2)

median(vs) ==
    IF Len(vs) = 0 THEN Whole(0) ELSE middle(sortAscending(vs), Len(vs) \div 2)

\* average without the guard on the empty list
averageNoGuard(vs) == Quot(sum(vs), Whole(Len(vs)))

average(vs) ==
    IF Len(vs) = 0 THEN Whole(0) ELSE Quot(sum(vs), Whole(Len(vs)))

---------------------------------------------------------------------------
(* calculateKPIs *)

activeProperties(ps) ==
    SelectSeq(ps, LAMBDA p : p.status.s \in {"Active", "A", "ACTIVE"})

propertiesWithDOM(ps) == SelectSeq(ps, LAMBDA p : p.daysOnMarket # Undefined)

\* properties.map(p => p.price).filter(p => p && p > 0), over the Sold
\* subset in the code, here over every record
salePricesOfAll(ps) ==
    LET kept == SelectSeq(ps, LAMBDA p : Truthy(p.price) /\ Positive(p.price))
    IN  [i \in 1..Len(kept) |-> RatioOf(kept[i].price)]

salePrices(ps) ==
    LET kept == SelectSeq(soldProperties(ps),
                          LAMBDA p : Truthy(p.price) /\ Positive(p.price))
    IN  [i \in 1..Len(kept) |-> RatioOf(kept[i].price)]

\* p.listPrice || p.price
listOrPrice(p) == Or(p.listPrice, p.price)

listPrices(ps) ==
    LET kept == SelectSeq(ps, LAMBDA p : Truthy(listOrPrice(p)) /\ Positive(listOrPrice(p)))
    IN  [i \in 1..Len(kept) |-> RatioOf(listOrPrice(kept[i]))]

pricePerSqftValues(ps) ==
    [i \in 1..Len(ps) |-> Quot(RatioOf(ps[i].price), RatioOf(ps[i].sqft))]

domValues(ps) ==
    LET kept == propertiesWithDOM(ps)
    IN  [i \in 1..Len(kept) |-> RatioOf(kept[i].daysOnMarket)]

saleToListRatios(ps) ==
    LET kept == SelectSeq(soldProperties(ps),
                          LAMBDA p : Truthy(p.listPrice) /\ Truthy(p.salePrice))
    IN  [i \in 1..Len(kept) |-> Quot(RatioOf(kept[i].salePrice), RatioOf(kept[i].listPrice))]

\* The local calendar day of new Date(s) for a date-only ISO string s.  The
\* string is read as midnight UTC, so west of Greenwich the local day is the
\* day before; getMonth and getFullYear read the local day.
isoYear(s) == DigitsValue(SubSeq(s, 1, 4), 4)
isoMonth(s) == DigitsValue(SubSeq(s, 6, 7), 2)
isoDay(s) == DigitsValue(SubSeq(s, 9, 10), 2)

\* getMonth(), 0-based
getMonth(s, west) ==
    IF west /\ isoDay(s) = 1
    THEN (IF isoMonth(s) = 1 THEN 11 ELSE isoMonth(s) - 2)
    ELSE isoMonth(s) - 1

getFullYear(s, west) ==
    IF west /\ isoDay(s) = 1 /\ isoMonth(s) = 1 THEN isoYear(s) - 1 ELSE isoYear(s)

\* date is a truthy date string that falls in the month and year of clock
inCurrentMonth(date, clock) ==
    /\ Truthy(date)
    /\ getMonth(date.s, clock.west) = clock.month
    /\ getFullYear(date.s, clock.west) = clock.year

newListingsThisMonth(ps, clock) ==
    Len(SelectSeq(ps, LAMBDA p : inCurrentMonth(p.listDate, clock)))

soldThisMonth(ps, clock) ==
    Len(SelectSeq(soldProperties(ps), LAMBDA p : inCurrentMonth(p.saleDate, clock)))

\* soldThisMonth || 1
averageMonthlySales(ps, clock) ==
    IF soldThisMonth(ps, clock) # 0 THEN soldThisMonth(ps, clock) ELSE 1

monthsOfInventory(ps, clock) ==
    Quot(Whole(Len(activeProperties(ps))), Whole(averageMonthlySales(ps, clock)))

absorptionRate(ps) ==
    IF Len(ps) > 0
    THEN Times(Quot(Whole(Len(soldProperties(ps))), Whole(Len(ps))), Whole(100))
    ELSE Whole(0)

KPINames ==
    { "medianSalePrice", "averageSalePrice", "medianListPrice", "averageListPrice",
      "saleToListRatio", "pricePerSqft", "averageDaysOnMarket", "medianDaysOnMarket",
      "closedSalesCount", "newListingsCount", "monthsOfInventory", "absorptionRate",
      "cashVsFinancedRatio", "totalProperties" }

calculateKPIs(ps, clock) ==
    IF Len(ps) = 0 THEN [k \in KPINames |-> Whole(0)]
    ELSE [ medianSalePrice |-> median(salePrices(ps)),
           averageSalePrice |-> average(salePrices(ps)),
           medianListPrice |-> median(listPrices(ps)),
           averageListPrice |-> average(listPrices(ps)),
           saleToListRatio |-> average(saleToListRatios(ps)),
           pricePerSqft |-> average(pricePerSqftValues(ps)),
           averageDaysOnMarket |-> average(domValues(ps)),
           medianDaysOnMarket |-> median(domValues(ps)),
           closedSalesCount |-> Whole(Len(soldProperties(ps))),
           newListingsCount |-> Whole(newListingsThisMonth(ps, clock)),
           monthsOfInventory |-> monthsOfInventory(ps, clock),
           absorptionRate |-> absorptionRate(ps),
           cashVsFinancedRatio |-> Ratio(3, 4),
           totalProperties |-> Whole(Len(ps)) ]

---------------------------------------------------------------------------
(* useFilters *)

\* The keys of FilterState.  A key that is absent and a key that holds
\* undefined read the same, so a FilterState is a record over all the keys.
FilterKeys == {"dateRange", "priceRange", "location", "beds", "baths", "propertyTypes", "status"}

\* useState<FilterState>({}), and what resetFilters sets
emptyFilters == [k \in FilterKeys |-> Undefined]

\* { ...prev, ...newFilters }: a shallow merge, key by key
mergeFilters(prev, newFilters) ==
    [k \in FilterKeys |-> IF k \in DOMAIN newFilters THEN newFilters[k] ELSE prev[k]]

\* object?.key
optional(object, key) == IF object = Undefined THEN Undefined ELSE object[key]

\* a < b for numbers
NumLess(a, b) ==
    CASE a.t = "number" /\ b.t = "number" -> a.m * Pow10(b.e) < b.m * Pow10(a.e)
      [] a.t = "infinity" /\ b.t = "number" -> a.neg
      [] a.t = "number" /\ b.t = "infinity" -> ~b.neg
      [] OTHER -> a.neg /\ ~b.neg

\* the code units of the characters date strings are written with, in order
DateChars == "-0123456789"

charCode(c) == CHOOSE i \in 1..Len(DateChars) : CharAt(DateChars, i) = c

\* a < b for strings: the first code unit that differs decides, and a
\* proper prefix comes first
RECURSIVE StrLess(_, _)
StrLess(a, b) ==
    IF b = "" THEN FALSE
    ELSE IF a = "" THEN TRUE
    ELSE IF Head(a) = Head(b) THEN StrLess(Tail(a), Tail(b))
    ELSE charCode(Head(a)) < charCode(Head(b))

\* s.includes(part)
includes(s, part) ==
    \E i \in 0..(Len(s) - Len(part)) : SubSeq(s, i + 1, i + Len(part)) = part

\* property.saleDate || property.listDate
propertyDate(property) == Or(property.saleDate, property.listDate)

\* passesDate comparing against listDate first and saleDate only without it
passesDateListFirst(property, f) ==
    IF Truthy(optional(f.dateRange, "from")) \/ Truthy(optional(f.dateRange, "to"))
    THEN /\ Truthy(Or(property.listDate, property.saleDate))
         /\ ~(/\ Truthy(f.dateRange.from)
              /\ StrLess(Or(property.listDate, property.saleDate).s, f.dateRange.from.s))
         /\ ~(/\ Truthy(f.dateRange.to)
              /\ StrLess(f.dateRange.to.s, Or(property.listDate, property.saleDate).s))
    ELSE TRUE

\* lines 112-118
passesDate(property, f) ==
    IF Truthy(optional(f.dateRange, "from")) \/ Truthy(optional(f.dateRange, "to"))
    THEN /\ Truthy(propertyDate(property))
         /\ ~(/\ Truthy(f.dateRange.from)
              /\ StrLess(propertyDate(property).s, f.dateRange.from.s))
         /\ ~(/\ Truthy(f.dateRange.to)
              /\ StrLess(f.dateRange.to.s, propertyDate(property).s))
    ELSE TRUE

\* lines 121-122
passesPrice(property, f) ==
    /\ ~(/\ Truthy(optional(f.priceRange, "min"))
         /\ NumLess(property.price, f.priceRange.min))
    /\ ~(/\ Truthy(optional(f.priceRange, "max"))
         /\ NumLess(f.priceRange.max, property.price))

\* lines 125-130
passesLocation(property, f) ==
    /\ ~(/\ Truthy(optional(f.location, "city"))
         /\ ~includes(toLowerCase(property.city.s), toLowerCase(f.location.city.s)))
    /\ ~(/\ Truthy(optional(f.location, "zipCode"))
         /\ property.zipCode # f.location.zipCode)

\* lines 133-136
passesBeds(property, f) == ~(Truthy(f.beds) /\ NumLess(property.beds, f.beds))

passesBaths(property, f) == ~(Truthy(f.baths) /\ NumLess(property.baths, f.baths))

\* lines 139-141; propertyTypes is undefined or a list of strings
passesPropertyType(property, f) ==
    ~(/\ f.propertyTypes # Undefined
      /\ Len(f.propertyTypes) # 0
      /\ ~(\E i \in 1..Len(f.propertyTypes) : f.propertyTypes[i] = property.propertyType))

\* line 144
passesStatus(property, f) == ~(Truthy(f.status) /\ property.status # f.status)

\* the callback of data.filter: the first check that fails returns false
passes(property, f) ==
    /\ passesDate(property, f)
    /\ passesPrice(property, f)
    /\ passesLocation(property, f)
    /\ passesBeds(property, f)
    /\ passesBaths(property, f)
    /\ passesPropertyType(property, f)
    /\ passesStatus(property, f)

\* the value of the useMemo (lines 107-148)
applyFilters(d, f) ==
    IF Len(d) = 0 THEN <<>> ELSE SelectSeq(d, LAMBDA property : passes(property, f))

---------------------------------------------------------------------------
(* Inputs of the model. *)

\* the outcomes of Math.random().toString(36).substr(2, 9) that are told apart
Ids == 1..MaxId

RECURSIVE SeqsUpTo(_, _)
SeqsUpTo(S, n) ==
    IF n = 0 THEN {<<>>}
    ELSE {<<>>} \cup {<<x>> \o q : x \in S, q \in SeqsUpTo(S, n - 1)}

InjectiveSeqs(S, n) ==
    {q \in SeqsUpTo(S, n) : \A i, j \in 1..Len(q) : i # j => q[i] # q[j]}

\* Headers the mapper is run on: MLS aliases, synonyms matched by pattern
\* (some by the patterns of two fields), one that needs trimming and
\* lower-casing, and one that no field recognises.
HeaderUniverse ==
    { "Sold Price", "Listing Price", "Orig. List Price", "list_price",
      "asking_price", "sold_price", " SQFT ", "Status", "Notes" }

\* Papa keys each row object by header, so the headers of a file are distinct.
HeaderLists == InjectiveSeqs(HeaderUniverse, MaxHeaders) \ {<<>>}

ScenarioHeaders ==
    << "Sold Price", "Overall Total Bedrooms", "Overall Total Baths",
       "Main House SqFt", "Status" >>

ScenarioRow == << "300000", "3", "2", "1500", "C" >>

\* Header lists a single transformRow call is tried on.
RowHeaderLists ==
    { << "Street", "City", "price", "sale_price", "list_price", "beds", "baths",
         "sqft", "status" >>,
      << "Sold Price", "Main House SqFt", "Status" >>,
      << "Listing Price", "City" >> }

\* Cell texts drawn under a header for a single transformRow call.
CellsFor(header) ==
    CASE header \in {"price", "Sold Price", "Listing Price"} ->
            {"", "0", "-5", "300000", "$1,200.50", "n/a", "Infinity"}
      [] header = "sale_price" -> {"", "250000", "-1"}
      [] header = "list_price" -> {"", "310000"}
      [] header \in {"sqft", "Main House SqFt"} -> {"", "0", "-1500", "1500"}
      [] header \in {"status", "Status"} -> {"", "C", "Expired", " Active "}
      [] header = "Street" -> {"", " 1 Main St "}
      [] header = "City" -> {"", "Aspen"}
      [] header = "beds" -> {"", "3"}
      [] header = "baths" -> {"2.5"}
      [] OTHER -> {""}

\* Header lists of the files processCSV is run on; the last has no column
\* that the mapper recognises.
FileHeaderLists == { ScenarioHeaders, << "price", "sale_price", "sqft" >>, << "Notes" >> }

\* Cell texts drawn under a header of a file.
FileCellsFor(header) ==
    CASE header = "Sold Price" -> {"300000", "", "-5"}
      [] header = "Overall Total Bedrooms" -> {"3"}
      [] header = "Overall Total Baths" -> {"2"}
      [] header = "Main House SqFt" -> {"1500"}
      [] header = "Status" -> {"C", "A"}
      [] header = "price" -> {"$1,200", "abc"}
      [] header = "sale_price" -> {"", "250000"}
      [] header = "sqft" -> {"1500"}
      [] header = "Notes" -> {"", "see agent"}
      [] OTHER -> {""}

\* every row whose i-th cell is drawn from choices[i]
RECURSIVE RowsFrom(_)
RowsFrom(choices) ==
    IF choices = <<>> THEN {<<>>}
    ELSE {<<c>> \o r : c \in Head(choices), r \in RowsFrom(Tail(choices))}

RowsOver(hs) == RowsFrom([i \in 1..Len(hs) |-> CellsFor(hs[i])])

FileRowsOver(hs) == RowsFrom([i \in 1..Len(hs) |-> FileCellsFor(hs[i])])

\* What Papa hands to complete: result.data, and the keys of its rows.
Files ==
    UNION { { [headers |-> hs, data |-> d] :
                d \in SeqsUpTo(FileRowsOver(hs), MaxRows) } :
            hs \in FileHeaderLists }

\* Cell texts cleanValue is called on: every text of up to MaxCellLen of
\* the characters below, and some longer ones.
CellChars == {" ", "$", ",", ".", "-", "0", "1", "x"}

RECURSIVE TextsUpTo(_)
TextsUpTo(n) ==
    IF n = 0 THEN {""}
    ELSE {""} \cup {c \o t : c \in CellChars, t \in TextsUpTo(n - 1)}

CellTexts ==
    TextsUpTo(MaxCellLen)
        \cup {"$1,234.50", "not a number", " 42 ", "12abc", "1e3", "-0.0", "Infinity",
              "-Infinity", "$ 1,0", "2024-03-05"}

\* Date texts: blank, a calendar date in ISO form, and text that no engine
\* reads as a date.
DateTexts == {"", "  ", "2024-03-05", " 2024-03-05 ", "not a date", "x"}

\* the calls of cleanValue: its value is a string, or undefined when the row
\* has no such column
CleanCalls ==
    {[value |-> v, type |-> ty] :
        v \in {Undefined} \cup {Str(t) : t \in CellTexts}, ty \in {"number", "string"}}
    \cup {[value |-> v, type |-> "date"] : v \in {Undefined} \cup {Str(t) : t \in DateTexts}}

\* A Property as ingestion builds it; the records below vary it.
BaseProperty ==
    [ id |-> 1, address |-> Str("1 Main St"), city |-> Str("Aspen"), state |-> Undefined,
      zipCode |-> Undefined, price |-> Num(300000, 0), listPrice |-> Undefined,
      salePrice |-> Undefined, beds |-> Num(3, 0), baths |-> Num(2, 0),
      sqft |-> Num(1500, 0), lotSize |-> Undefined, yearBuilt |-> Undefined,
      propertyType |-> Str("Single Family"), status |-> Str("Active"),
      daysOnMarket |-> Undefined, listDate |-> Undefined, saleDate |-> Undefined,
      hoaFees |-> Undefined ]

\* Records useFilters is run on: one with both dates, one with a list date
\* only, one with neither.
FilterProperties ==
    { [BaseProperty EXCEPT !.id = 1, !.zipCode = Str("81611"), !.status = Str("Sold"),
                           !.propertyType = Str("Condo"),
                           !.saleDate = Str("2024-03-05"), !.listDate = Str("2024-01-10")],
      [BaseProperty EXCEPT !.id = 2, !.city = Str("Basalt"), !.price = Num(250000, 0),
                           !.beds = Num(2, 0), !.baths = Num(15, 1),
                           !.listDate = Str("2024-03-20")],
      [BaseProperty EXCEPT !.id = 3, !.city = Str("Snowmass"), !.zipCode = Str("81615"),
                           !.price = Num(600000, 0), !.beds = Num(4, 0), !.baths = Num(3, 0),
                           !.propertyType = Str("Condo"), !.status = Str("Pending")] }

FilterLists == SeqsUpTo(FilterProperties, MaxData)

\* What updateFilters is called with: one dimension at a time, as the
\* sidebar does, with the values its inputs and buttons produce (a cleared
\* text input gives '', a typed 0 gives 0) and undefined to clear.
FilterUpdates ==
    { [dateRange |-> [from |-> Str("2024-03-05"), to |-> Undefined]],
      [dateRange |-> [from |-> Str(""), to |-> Str("2024-03-05")]],
      [dateRange |-> [from |-> Str("2024-03-01"), to |-> Str("2024-03-31")]],
      [priceRange |-> [min |-> Num(0, 0), max |-> Num(250000, 0)]],
      [priceRange |-> [min |-> Num(300000, 0), max |-> Undefined]],
      [priceRange |-> [min |-> Undefined, max |-> Num(0, 0)]],
      [location |-> [city |-> Str("ASP"), zipCode |-> Undefined]],
      [location |-> [city |-> Str(""), zipCode |-> Str("81611")]],
      [beds |-> Num(3, 0)],
      [beds |-> Undefined],
      [baths |-> Num(2, 0)],
      [propertyTypes |-> <<Str("Condo"), Str("Townhome")>>],
      [propertyTypes |-> <<>>],
      [status |-> Str("Sold")],
      [status |-> Undefined] }

\* Records calculateKPIs is run on: the three Sold-family codes, the Active
\* family, list prices that are absent, zero, negative and positive, and
\* dates on the first day of a month and inside it.
KPIProperties ==
    { [BaseProperty EXCEPT !.status = Str("Sold"), !.price = Num(200000, 0),
                           !.saleDate = Str("2024-04-01"), !.daysOnMarket = Num(10, 0)],
      [BaseProperty EXCEPT !.status = Str("C"), !.price = Num(250000, 0),
                           !.listPrice = Num(260000, 0), !.salePrice = Num(250000, 0),
                           !.saleDate = Str("2024-04-10"), !.daysOnMarket = Num(30, 0)],
      [BaseProperty EXCEPT !.status = Str("Closed"), !.price = Num(400000, 0),
                           !.listPrice = Num(0, 0), !.salePrice = Num(400000, 0),
                           !.saleDate = Str("2024-03-31"), !.listDate = Str("2024-01-01")],
      [BaseProperty EXCEPT !.status = Str("Active"), !.price = Num(300000, 0),
                           !.listPrice = Num(-5, 0), !.listDate = Str("2024-04-01"),
                           !.daysOnMarket = Num(0, 0)],
      [BaseProperty EXCEPT !.status = Str("A"), !.price = Num(150000, 0),
                           !.listPrice = Num(0, 0)],
      [BaseProperty EXCEPT !.status = Str("Pending"), !.price = Num(500000, 0),
                           !.listPrice = Num(520000, 0), !.listDate = Str("2024-04-15")],
      [BaseProperty EXCEPT !.status = Str("SOLD"), !.price = Num(350000, 0),
                           !.salePrice = Num(350000, 0), !.listPrice = Num(280000, 0),
                           !.sqft = Num(-1500, 0)] }

SoldAt(price) == [BaseProperty EXCEPT !.status = Str("Sold"), !.price = Num(price, 0)]

\* three Sold records priced 200000, 250000, 400000 among Active records
ThreeSold == <<BaseProperty, SoldAt(400000), SoldAt(200000), BaseProperty, SoldAt(250000)>>

\* ten active listings, none sold
TenActive == [i \in 1..10 |-> BaseProperty]

KPILists == SeqsUpTo(KPIProperties, MaxProps) \cup {ThreeSold, TenActive}

\* What new Date() can say when calculateKPIs runs: year, month (0-based),
\* and whether the time zone lies west of Greenwich.
Clocks ==
    {[year |-> 2024, month |-> 3, west |-> w] : w \in BOOLEAN}
    \cup {[year |-> 2024, month |-> 2, west |-> w] : w \in BOOLEAN}
    \cup {[year |-> 2023, month |-> 11, west |-> w] : w \in BOOLEAN}

\* the numbers median is run on
MedianNumbers == {Whole(-3), Whole(0), Ratio(5, 2), Whole(7), Whole(10)}

MedianLists == SeqsUpTo(MedianNumbers, MaxValues)

\* the variables of the parts a specification does not exercise
IngestIdle ==
    /\ headers = <<>> /\ rows = <<>> /\ mapping = emptyMapping
    /\ hi = 0 /\ index = 0 /\ transformedData = <<>> /\ errors = <<>>
    /\ settled = [state |-> "pending"]

DashboardIdle ==
    /\ argValue = Undefined /\ argType = "string"
    /\ filterData = <<>> /\ filters = emptyFilters
    /\ kpiProperties = <<>> /\ now = [year |-> 2024, month |-> 3, west |-> FALSE]
    /\ values = <<>>

\* The components' states as useState initialises them, and their props
\* before any data is loaded.
noSubject ==
    [address |-> "", askingPrice |-> "", sqft |-> "", beds |-> "", baths |-> "",
     zipCode |-> ""]

comparablesInitial == [subjectProperty |-> noSubject, property |-> Null, data |-> <<>>]

aiQueryInitial ==
    [query |-> "", data |-> <<>>, server |-> "answers", requests |-> 0, response |-> Null]

csvDataInitial ==
    [data |-> Null, isLoading |-> FALSE, fileName |-> "", rowCount |-> 0,
     running |-> <<>>, toast |-> ""]

modalInitial ==
    [property |-> Null, allProperties |-> <<>>, currentPhotoIndex |-> 0, analysis |-> Null,
     isAnalyzing |-> FALSE, running |-> <<>>]

tableInitial ==
    [data |-> <<>>, sortField |-> "price", sortDirection |-> "desc", currentPage |-> 1,
     pageSize |-> 25]

\* AIChat's state: the greeting is there from the start.  data is the
\* filteredData passed in, running the queries handleSend is waiting for.
chatInitial ==
    [messages |-> <<[type |-> "ai",
                     content |-> "Hi! I can help you analyze your real estate data. Try asking me something like \"What's the average price for 3-bedroom homes in Austin?\""]>>,
     input |-> "", isLoading |-> FALSE, data |-> <<>>, running |-> <<>>, toast |-> ""]

UiIdle ==
    /\ comparables = comparablesInitial /\ aiQuery = aiQueryInitial
    /\ csvData = csvDataInitial /\ modal = modalInitial
    /\ table = tableInitial /\ chat = chatInitial

---------------------------------------------------------------------------
(* The mapper, one loop iteration at a time (specification SpecMapper). *)

Pending == [state |-> "pending"]

InitMapper ==
    /\ pc = "exact"
    /\ headers \in HeaderLists
    /\ mapping = emptyMapping
    /\ hi = 1
    /\ rows = <<>> /\ index = 0 /\ transformedData = <<>> /\ errors = <<>>
    /\ settled = Pending /\ out = Null
    /\ DashboardIdle
    /\ UiIdle

\* for (const header of headers) { if (exactMatches[header]) ... }
ExactLoop ==
    /\ pc = "exact" /\ hi <= Len(headers)
    /\ mapping' = exactStep(mapping, headers[hi])
    /\ hi' = hi + 1
    /\ UNCHANGED <<pc, headers, rows, index, transformedData, errors, settled, out>>
    /\ UNCHANGED dashboardVars
    /\ UNCHANGED uiVars

ExactDone ==
    /\ pc = "exact" /\ hi > Len(headers)
    /\ pc' = "pattern" /\ hi' = 1
    /\ UNCHANGED <<headers, rows, mapping, index, transformedData, errors, settled, out>>
    /\ UNCHANGED dashboardVars
    /\ UNCHANGED uiVars

\* headers.forEach(header => { ... })
PatternLoop ==
    /\ pc = "pattern" /\ hi <= Len(headers)
    /\ mapping' = patternStep(mapping, headers[hi])
    /\ hi' = hi + 1
    /\ UNCHANGED <<pc, headers, rows, index, transformedData, errors, settled, out>>
    /\ UNCHANGED dashboardVars
    /\ UNCHANGED uiVars

\* return mapping
PatternDone ==
    /\ pc = "pattern" /\ hi > Len(headers)
    /\ pc' = "mapped"
    /\ UNCHANGED <<headers, rows, mapping, hi, index, transformedData, errors, settled, out>>
    /\ UNCHANGED dashboardVars
    /\ UNCHANGED uiVars

NextMapper == ExactLoop \/ ExactDone \/ PatternLoop \/ PatternDone

SpecMapper == InitMapper /\ [][NextMapper]_vars

---------------------------------------------------------------------------
(* One transformRow call on a drawn row (specification SpecRow). *)

\* the mapping processCSV would hand to transformRow for each header list
RowMappings == {[headers |-> hs, mapping |-> detectColumnMapping(hs)] : hs \in RowHeaderLists}

InitRow ==
    /\ pc = "call"
    /\ \E in \in RowMappings :
          /\ headers = in.headers
          /\ mapping = in.mapping
          /\ rows \in {<<r>> : r \in RowsOver(in.headers)}
    /\ hi = 0 /\ index = 0 /\ transformedData = <<>> /\ errors = <<>>
    /\ settled = Pending /\ out = Null
    /\ DashboardIdle
    /\ UiIdle

CallLenient ==
    /\ pc = "call"
    /\ \E id \in Ids : out' = transformRow(rows[1], headers, mapping, id)
    /\ pc' = "lenient"
    /\ UNCHANGED <<headers, rows, mapping, hi, index, transformedData, errors, settled>>
    /\ UNCHANGED dashboardVars
    /\ UNCHANGED uiVars

CallStrict ==
    /\ pc = "call"
    /\ \E id \in Ids : out' = transformRowStrict(rows[1], headers, mapping, id)
    /\ pc' = "strict"
    /\ UNCHANGED <<headers, rows, mapping, hi, index, transformedData, errors, settled>>
    /\ UNCHANGED dashboardVars
    /\ UNCHANGED uiVars

NextRow == CallLenient \/ CallStrict

SpecRow == InitRow /\ [][NextRow]_vars

---------------------------------------------------------------------------
(* processCSV (specification Spec). *)

Rejected(reason) == [state |-> "rejected", reason |-> reason]

Resolved(data, columnMapping, errs) ==
    [state |-> "resolved", data |-> data, columnMapping |-> columnMapping, errors |-> errs]

\* the warnings pushed before the rows are transformed (lines 176-188)
columnWarnings(m) ==
    (IF m["address"] = Unmapped /\ m["city"] = Unmapped
     THEN <<"Could not detect address or location columns.">> ELSE <<>>)
    \o (IF m["price"] = Unmapped /\ m["listPrice"] = Unmapped /\ m["salePrice"] = Unmapped
        THEN <<"Could not detect price columns (list price, sale price, etc.).">>
        ELSE <<>>)
    \o (IF m["sqft"] = Unmapped /\ m["lotSize"] = Unmapped
        THEN <<"Could not detect size information (square feet, lot size, etc.).">>
        ELSE <<>>)

\* pushRow with a rejected row discarding what was collected before it
pushRowAbort(data, property) ==
    IF property # Null THEN Append(data, property) ELSE <<>>

\* if (property) transformedData.push(property)
pushRow(data, property) ==
    IF property # Null THEN Append(data, property) ELSE data

Init ==
    /\ pc = "idle"
    /\ headers = <<>> /\ rows = <<>> /\ mapping = emptyMapping
    /\ hi = 0 /\ index = 0 /\ transformedData = <<>> /\ errors = <<>>
    /\ settled = Pending /\ out = Null
    /\ DashboardIdle
    /\ UiIdle

\* Papa's error callback
ParseError ==
    /\ pc = "idle"
    /\ pc' = "rejected"
    /\ settled' = Rejected("Failed to parse CSV file")
    /\ UNCHANGED <<headers, rows, mapping, hi, index, transformedData, errors, out>>
    /\ UNCHANGED dashboardVars
    /\ UNCHANGED uiVars

\* complete, with no data rows
CompleteEmpty ==
    /\ pc = "idle"
    /\ pc' = "rejected"
    /\ settled' = Rejected("CSV file appears to be empty or corrupted")
    /\ UNCHANGED <<headers, rows, mapping, hi, index, transformedData, errors, out>>
    /\ UNCHANGED dashboardVars
    /\ UNCHANGED uiVars

\* complete, with data rows: the headers, the mapping and the warnings
CompleteParsed ==
    /\ pc = "idle"
    /\ \E file \in Files :
          /\ Len(file.data) > 0
          /\ rows' = file.data
          /\ headers' = file.headers
          /\ mapping' = detectColumnMapping(file.headers)
          /\ errors' = columnWarnings(detectColumnMapping(file.headers))
    /\ transformedData' = <<>>
    /\ index' = 0
    /\ pc' = "rows"
    /\ UNCHANGED <<hi, settled, out>>
    /\ UNCHANGED dashboardVars
    /\ UNCHANGED uiVars

\* one call of the forEach callback; transformRow catches what it throws,
\* so the callback's own catch never runs
TransformNext ==
    /\ pc = "rows" /\ index < Len(rows)
    /\ \E id \in Ids :
          transformedData' =
              pushRow(transformedData, transformRow(rows[index + 1], headers, mapping, id))
    /\ index' = index + 1
    /\ UNCHANGED <<pc, headers, rows, mapping, hi, errors, settled, out>>
    /\ UNCHANGED dashboardVars
    /\ UNCHANGED uiVars

SettleRejected ==
    /\ pc = "rows" /\ index = Len(rows)
    /\ Len(transformedData) = 0
    /\ pc' = "rejected"
    /\ settled' = Rejected("No valid property records found. Please check your CSV format and required columns.")
    /\ UNCHANGED <<headers, rows, mapping, hi, index, transformedData, errors, out>>
    /\ UNCHANGED dashboardVars
    /\ UNCHANGED uiVars

SettleResolved ==
    /\ pc = "rows" /\ index = Len(rows)
    /\ Len(transformedData) # 0
    /\ pc' = "resolved"
    /\ settled' = Resolved(transformedData, mapping, errors)
    /\ UNCHANGED <<headers, rows, mapping, hi, index, transformedData, errors, out>>
    /\ UNCHANGED dashboardVars
    /\ UNCHANGED uiVars

Next ==
    \/ ParseError \/ CompleteEmpty \/ CompleteParsed
    \/ TransformNext \/ SettleRejected \/ SettleResolved

Spec == Init /\ [][Next]_vars

---------------------------------------------------------------------------
(* One cleanValue call (specification SpecClean). *)

InitClean ==
    /\ pc = "clean"
    /\ \E call \in CleanCalls : argValue = call.value /\ argType = call.type
    /\ out = Null
    /\ IngestIdle
    /\ filterData = <<>> /\ filters = emptyFilters
    /\ kpiProperties = <<>> /\ now = [year |-> 2024, month |-> 3, west |-> FALSE]
    /\ values = <<>>
    /\ UiIdle

CallCleanValue ==
    /\ pc = "clean"
    /\ out' = cleanValue(argValue, argType)
    /\ pc' = "cleaned"
    /\ UNCHANGED ingestVars
    /\ UNCHANGED dashboardVars
    /\ UNCHANGED uiVars

NextClean == CallCleanValue

SpecClean == InitClean /\ [][NextClean]_vars

---------------------------------------------------------------------------
(* useFilters over a given record list (specification SpecFilter). *)

InitFilter ==
    /\ pc = "filters"
    /\ filterData \in FilterLists
    /\ filters = emptyFilters
    /\ out = Null
    /\ IngestIdle
    /\ argValue = Undefined /\ argType = "string"
    /\ kpiProperties = <<>> /\ now = [year |-> 2024, month |-> 3, west |-> FALSE]
    /\ values = <<>>
    /\ UiIdle

\* setFilters(prev => ({ ...prev, ...newFilters }))
updateFilters ==
    /\ pc = "filters"
    /\ \E newFilters \in FilterUpdates : filters' = mergeFilters(filters, newFilters)
    /\ UNCHANGED <<pc, out, argValue, argType, filterData, kpiProperties, now, values>>
    /\ UNCHANGED ingestVars
    /\ UNCHANGED uiVars

\* setFilters({})
resetFilters ==
    /\ pc = "filters"
    /\ filters' = emptyFilters
    /\ UNCHANGED <<pc, out, argValue, argType, filterData, kpiProperties, now, values>>
    /\ UNCHANGED ingestVars
    /\ UNCHANGED uiVars

NextFilter == updateFilters \/ resetFilters

SpecFilter == InitFilter /\ [][NextFilter]_vars

\* what the hook returns as filteredData on the render that follows
filteredData == applyFilters(filterData, filters)

---------------------------------------------------------------------------
(* One calculateKPIs call (specification SpecKPI). *)

InitKPI ==
    /\ pc = "kpi"
    /\ kpiProperties \in KPILists
    /\ now \in Clocks
    /\ out = Null
    /\ IngestIdle
    /\ argValue = Undefined /\ argType = "string"
    /\ filterData = <<>> /\ filters = emptyFilters
    /\ values = <<>>
    /\ UiIdle

CallCalculateKPIs ==
    /\ pc = "kpi"
    /\ out' = calculateKPIs(kpiProperties, now)
    /\ pc' = "calculated"
    /\ UNCHANGED ingestVars
    /\ UNCHANGED dashboardVars
    /\ UNCHANGED uiVars

NextKPI == CallCalculateKPIs

SpecKPI == InitKPI /\ [][NextKPI]_vars

---------------------------------------------------------------------------
(* One median call (specification SpecMedian). *)

InitMedian ==
    /\ pc = "median"
    /\ values \in MedianLists
    /\ out = Null
    /\ IngestIdle
    /\ argValue = Undefined /\ argType = "string"
    /\ filterData = <<>> /\ filters = emptyFilters
    /\ kpiProperties = <<>> /\ now = [year |-> 2024, month |-> 3, west |-> FALSE]
    /\ UiIdle

\* the sort is done on a copy, so values is left as it was
CallMedian ==
    /\ pc = "median"
    /\ out' = median(values)
    /\ pc' = "median done"
    /\ UNCHANGED ingestVars
    /\ UNCHANGED dashboardVars
    /\ UNCHANGED uiVars

NextMedian == CallMedian

SpecMedian == InitMedian /\ [][NextMedian]_vars

---------------------------------------------------------------------------
(* Claims about detectColumnMapping, checked under SpecMapper. *)

\* position of field f in the table order of COLUMN_PATTERNS
FieldPos(f) == CHOOSE i \in 1..Len(FieldOrder) : FieldOrder[i] = f

\* for each header that is drawn, the fields whose pattern its trimmed,
\* lower-cased text matches
MatchingFields ==
    [h \in HeaderUniverse |-> {f \in Fields : patternTest(f, toLowerCase(trim(h)))}]

\* the headers (by position) that match f's pattern
Matching(f) == {i \in 1..Len(headers) : f \in MatchingFields[headers[i]]}

\* what the exact-alias pass leaves (a one-element set, to bind it as a value)
AfterAliasPass == {exactPass(headers, Len(headers))}

\* C5: first match wins per canonical field: while detectColumnMapping
\* runs, a field that has been assigned a header keeps that header.
C5_FirstMatchWins ==
    [][(pc \in {"exact", "pattern"}) =>
           (\A f \in Fields : mapping[f] # Unmapped => mapping[f] = mapping'[f])]_vars

\* C6: in the returned mapping no header is the value of two different
\* canonical fields.
C6_HeaderConsumedOnce ==
    pc = "mapped" =>
        \A f, g \in Fields :
            f # g /\ mapping[f] # Unmapped => mapping[f] # mapping[g]

\* C7, as claimed: a field the alias pass left unmapped ends up mapped to
\* the first header, in input order, that matches its pattern, and is
\* left unmapped only if no header matches.
C7_FirstMatchingHeader ==
    pc = "mapped" =>
        \A alias \in AfterAliasPass : \A f \in Fields :
            alias[f] = Unmapped =>
                mapping[f] = IF Matching(f) = {} THEN Unmapped
                             ELSE headers[Min(Matching(f))]

\* header i was assigned, by the pattern pass, to a field that comes
\* before f in table order (alias is what the alias pass left)
TakenBefore(alias, f, i) ==
    \E g \in Fields :
        /\ FieldPos(g) < FieldPos(f)
        /\ alias[g] = Unmapped
        /\ mapping[g] = headers[i]

Available(alias, f) == {i \in Matching(f) : ~TakenBefore(alias, f, i)}

\* C7, amended: a field the alias pass left unmapped ends up mapped to the
\* first header, in input order, that matches its pattern and that the
\* pattern pass did not assign to a field earlier in table order; it is
\* left unmapped only if there is no such header.
C7_FirstAvailableHeader ==
    pc = "mapped" =>
        \A alias \in AfterAliasPass : \A f \in Fields :
            alias[f] = Unmapped =>
                mapping[f] = IF Available(alias, f) = {} THEN Unmapped
                             ELSE headers[Min(Available(alias, f))]

\* C7 witness: the mapper has returned, and some field the alias pass left
\* unmapped got a header although an earlier header matched its pattern
\* too (that one went to a field earlier in the table).
C7_Witness ==
    /\ pc = "mapped"
    /\ \E alias \in AfterAliasPass : \E f \in Fields :
          /\ alias[f] = Unmapped
          /\ mapping[f] # Unmapped
          /\ \E i \in Matching(f) : headers[i] # mapping[f] /\ TakenBefore(alias, f, i)
          /\ mapping[f] = headers[Min(Available(alias, f))]

-----
(* Claims about transformRow, checked under SpecRow. *)

\* the three price-like cells of the drawn row, coerced
PriceLikeCells ==
    {cleanField(rows[1], headers, mapping, f, "number") :
        f \in {"price", "salePrice", "listPrice"}}

\* C1: transformRow, in either variant, returns null or a record whose
\* price is strictly positive.
C1_PricePositive ==
    (pc \in {"lenient", "strict"} /\ out # Null) => Positive(out.price)

\* C3: the lenient transformRow accepts a row if and only if one of the
\* three price-like cells coerces to a positive number, and the accepted
\* record's price is a positive value taken from one of those cells.
C3_AcceptIffAnyPositivePrice ==
    pc = "lenient" =>
        /\ out # Null <=> \E v \in PriceLikeCells : IsNumber(v) /\ Positive(v)
        /\ out # Null => (Positive(out.price) /\ out.price \in PriceLikeCells)

\* C9: every record the lenient transformRow produces has sqft > 0.
C9_SqftPositive ==
    (pc = "lenient" /\ out # Null) => Positive(out.sqft)

\* C10: the status of every record the lenient transformRow produces is
\* one of the enumerated status values or "Unknown"; other text in the
\* status cell is never passed through.
C10_StatusEnumerated ==
    (pc = "lenient" /\ out # Null) => out.status.s \in (StatusEnum \cup {"Unknown"})

---------------------------------------------------------------------------
(* Claims about processCSV, checked under Spec. *)

\* detectColumnMapping of each header list a file can have
FileMappings == [hs \in FileHeaderLists |-> detectColumnMapping(hs)]

WithoutId(p) == [p EXCEPT !.id = 0]

\* the records of the accepted rows among rows[1..n], in row order, each
\* transformed against the mapping detected from the headers
AcceptedPrefix(n) ==
    SelectSeq([i \in 1..n |-> transformRow(rows[i], headers, FileMappings[headers], 0)],
              LAMBDA r : r # Null)

\* the run got past the parse and the empty-file check
Parsed == pc = "rows" \/ pc = "resolved" \/ (pc = "rejected" /\ rows # <<>>)

\* C2: ingestion is partial-failure tolerant: every row is transformed
\* against the one detected mapping, the records are exactly the accepted
\* rows in their original order, the run settles only after the last row,
\* and it is rejected only if no row at all was accepted.
C2_PartialFailureTolerant ==
    /\ Parsed =>
          /\ mapping = FileMappings[headers]
          /\ [i \in 1..Len(transformedData) |-> WithoutId(transformedData[i])]
                = AcceptedPrefix(index)
    /\ pc = "resolved" =>
          /\ index = Len(rows)
          /\ settled.state = "resolved"
          /\ settled.data = transformedData
          /\ settled.columnMapping = mapping
    /\ (pc = "rejected" /\ rows # <<>>) =>
          /\ index = Len(rows)
          /\ AcceptedPrefix(Len(rows)) = <<>>

\* C2 witness: a run resolved although a row before an accepted row was
\* rejected.
C2_Witness ==
    /\ pc = "resolved"
    /\ \E i, j \in 1..Len(rows) :
          /\ i < j
          /\ transformRow(rows[i], headers, mapping, 0) = Null
          /\ transformRow(rows[j], headers, mapping, 0) # Null

IsScenario == headers = ScenarioHeaders /\ rows = <<ScenarioRow>>

\* C4: the file with the five MLS headers and the single row
\* 300000,3,2,1500,C is ingested to exactly one Property with price 300000,
\* beds 3, baths 2, sqft 1500, which calculateKPIs counts as a closed sale.
C4_Scenario ==
    (IsScenario /\ pc \in {"resolved", "rejected"}) =>
        /\ pc = "resolved"
        /\ Len(settled.data) = 1
        /\ settled.data[1].price = Num(300000, 0)
        /\ settled.data[1].beds = Num(3, 0)
        /\ settled.data[1].baths = Num(2, 0)
        /\ settled.data[1].sqft = Num(1500, 0)
        /\ closedSalesCount(settled.data) = 1

\* C4 witness: the scenario file has been ingested and the promise resolved.
C4_Witness == IsScenario /\ pc = "resolved"

\* C8: within one ingestion run no two accepted records share an id.
C8_IdsDistinct ==
    \A i, j \in 1..Len(transformedData) :
        i # j => transformedData[i].id # transformedData[j].id

\* the file-level case a rejected run is in
fileCase ==
    IF rows = <<>> THEN "unreadable or empty"
    ELSE IF mapping = emptyMapping THEN "no recognizable columns"
    ELSE "no rows survived"

\* the reasons processCSV gives for a file that is unparsable or empty
UnreadableReasons == {"Failed to parse CSV file", "CSV file appears to be empty or corrupted"}

\* the reason it gives when no row was accepted
NoRowsReason ==
    "No valid property records found. Please check your CSV format and required columns."

\* C12: the rejection reason tells the three file-level cases apart: a
\* file without recognizable columns is rejected with a reason that is
\* neither one given for an unreadable or empty file nor the one given
\* when columns were recognized and no row survived.
C12_ReasonsDistinguish ==
    pc = "rejected" =>
        CASE fileCase = "unreadable or empty" -> settled.reason \in UnreadableReasons
          [] fileCase = "no rows survived" -> settled.reason = NoRowsReason
          [] OTHER -> settled.reason \notin (UnreadableReasons \cup {NoRowsReason})

---------------------------------------------------------------------------
(* Claims about cleanValue, checked under SpecClean. *)

\* the cell, trimmed and stripped of '$', ',' and white space, parses to a
\* finite number
ParsesFinite == parseFloat(stripCurrency(trim(argValue.s))).t = "number"

\* C11: cleanValue(raw, 'number') returns undefined for every input that
\* is missing, blank after trimming, or that does not parse to a finite
\* number once '$', ',' and white space are removed; what it returns
\* otherwise is that finite number, and an unparsable cell never yields 0.
C11_AbsentUnlessFinite ==
    (pc = "cleaned" /\ argType = "number") =>
        IF argValue = Undefined \/ trim(argValue.s) = "" \/ ~ParsesFinite
        THEN out = Undefined
        ELSE out = parseFloat(stripCurrency(trim(argValue.s)))

---------------------------------------------------------------------------
(* Claims about useFilters, checked under SpecFilter. *)

\* a bound or value of the spec that is present
Specified(v) == v # Undefined

\* a date bound that is present; a cleared date input leaves '', no date
DateSpecified(v) == v # Undefined /\ v # Str("")

\* a calendar date as a number that orders as the calendar does
DateKey(s) == isoYear(s) * 10000 + isoMonth(s) * 100 + isoDay(s)

\* the date a record is compared by: saleDate if it has one, else listDate
ComparedDate(p) == IF p.saleDate # Undefined THEN p.saleDate ELSE p.listDate

\* the date dimension as specified
DateOK(p, f) ==
    LET from == optional(f.dateRange, "from")
        to == optional(f.dateRange, "to")
    IN  (DateSpecified(from) \/ DateSpecified(to)) =>
            /\ ComparedDate(p) # Undefined
            /\ DateSpecified(from) => DateKey(from.s) <= DateKey(ComparedDate(p).s)
            /\ DateSpecified(to) => DateKey(ComparedDate(p).s) <= DateKey(to.s)

\* the price dimension as specified: inclusive bounds where specified
PriceOK(p, f) ==
    LET min == optional(f.priceRange, "min")
        max == optional(f.priceRange, "max")
    IN  /\ Specified(min) => ~NumLess(p.price, min)
        /\ Specified(max) => ~NumLess(max, p.price)

\* city: case-insensitive substring; zip: exact equality
LocationOK(p, f) ==
    LET city == optional(f.location, "city")
        zipCode == optional(f.location, "zipCode")
    IN  /\ Specified(city) => includes(toLowerCase(p.city.s), toLowerCase(city.s))
        /\ Specified(zipCode) => p.zipCode = zipCode

\* beds and baths: at least the specified minimum
RoomsOK(p, f) ==
    /\ Specified(f.beds) => ~NumLess(p.beds, f.beds)
    /\ Specified(f.baths) => ~NumLess(p.baths, f.baths)

\* property types: membership when the set is non-empty
TypeOK(p, f) ==
    (Specified(f.propertyTypes) /\ f.propertyTypes # <<>>) =>
        \E i \in 1..Len(f.propertyTypes) : f.propertyTypes[i] = p.propertyType

\* status: exact equality when specified
StatusOK(p, f) == Specified(f.status) => p.status = f.status

SatisfiesEveryDimension(p, f) ==
    /\ DateOK(p, f) /\ PriceOK(p, f) /\ LocationOK(p, f)
    /\ RoomsOK(p, f) /\ TypeOK(p, f) /\ StatusOK(p, f)

\* C13: filteredData is the subsequence of the input list, in the same
\* order, of exactly the records that satisfy every populated dimension of
\* the filter spec; with the empty spec it is the whole list.
C13_ConjunctionOfPopulated ==
    pc = "filters" =>
        /\ filteredData =
               SelectSeq(filterData, LAMBDA p : SatisfiesEveryDimension(p, filters))
        /\ filters = emptyFilters => filteredData = filterData

\* C14: whenever a price bound is specified, 0 included, a record passes
\* the price check of the filter if and only if min <= price where min is
\* specified and price <= max where max is specified.
C14_PriceInclusive ==
    pc = "filters" =>
        \A i \in 1..Len(filterData) :
            passesPrice(filterData[i], filters) <=> PriceOK(filterData[i], filters)

\* C15: with a date bound specified a record is compared by saleDate if it
\* has one and by listDate otherwise, is excluded if it has neither, and is
\* retained only if from <= date <= to for the bounds specified; with no
\* date bound no record is excluded by the date check.
C15_DateDimension ==
    pc = "filters" =>
        /\ \A i \in 1..Len(filterData) :
              passesDate(filterData[i], filters) <=> DateOK(filterData[i], filters)
        /\ \A i \in 1..Len(filteredData) : DateOK(filteredData[i], filters)

\* C15 witness: under a date range, a record whose saleDate lies in the
\* range and whose listDate lies before it is retained, and a record with
\* neither date is excluded.
C15_Witness ==
    /\ pc = "filters"
    /\ DateSpecified(optional(filters.dateRange, "from"))
    /\ DateSpecified(optional(filters.dateRange, "to"))
    /\ \E i, j \in 1..Len(filterData) :
          /\ filterData[i].saleDate # Undefined
          /\ filterData[i].listDate # Undefined
          /\ DateKey(filterData[i].listDate.s) < DateKey(filters.dateRange.from.s)
          /\ \E k \in 1..Len(filteredData) : filteredData[k] = filterData[i]
          /\ ComparedDate(filterData[j]) = Undefined
          /\ \A k \in 1..Len(filteredData) : filteredData[k] # filterData[j]

---------------------------------------------------------------------------
(* Claims about median, checked under SpecMedian, and about calculateKPIs, *)
(* checked under SpecKPI.                                                  *)

\* the k-th smallest element of a non-empty list, by counting
KthSmallest(vs, k) ==
    CHOOSE v \in {vs[i] : i \in 1..Len(vs)} :
        /\ Cardinality({i \in 1..Len(vs) : Before(vs[i], v)}) < k
        /\ k <= Cardinality({i \in 1..Len(vs) : ~Before(v, vs[i])})

\* the median as specified: the middle element of the ascending order, the
\* mean of the two middle elements for an even length, 0 for no elements
MedianOf(vs) ==
    IF Len(vs) = 0 THEN Whole(0)
    ELSE IF Len(vs) % 2 = 1 THEN KthSmallest(vs, (Len(vs) + 1) \div 2)
    ELSE Quot(Plus(KthSmallest(vs, Len(vs) \div 2), KthSmallest(vs, Len(vs) \div 2 + 1)),
              Whole(2))

RECURSIVE Total(_)
Total(vs) == IF vs = <<>> THEN Whole(0) ELSE Plus(Head(vs), Total(Tail(vs)))

\* the arithmetic mean, 0 for no elements
MeanOf(vs) == IF Len(vs) = 0 THEN Whole(0) ELSE Quot(Total(vs), Whole(Len(vs)))

\* C17: median returns the middle element of the ascending-sorted list for
\* an odd length, the mean of the two middle elements for an even length,
\* 0 for the empty list, and leaves the list it is given as it was.
C17_MedianOfSorted ==
    /\ [](pc = "median done" => out = MedianOf(values))
    /\ [][values' = values]_vars

\* C17 witness: median has run on a list of even length that is not in
\* ascending order and whose two middle elements differ.
C17_Witness ==
    /\ pc = "median done"
    /\ Len(values) = 4
    /\ \E i \in 1..3 : Before(values[i + 1], values[i])
    /\ KthSmallest(values, 2) # KthSmallest(values, 3)
    /\ out = Quot(Plus(KthSmallest(values, 2), KthSmallest(values, 3)), Whole(2))

SoldFamily == {"Sold", "C", "Closed", "SOLD"}

ActiveFamily == {"Active", "A", "ACTIVE"}

InSoldFamily(p) == p.status.s \in SoldFamily

\* the Sold subset of the records calculateKPIs was given
SoldSubset == SelectSeq(kpiProperties, InSoldFamily)

\* C16: calculateKPIs([]) returns the fourteen fields, each 0; and for a
\* non-empty list every field is a number (never undefined or NaN), with 0
\* for each statistic whose subset (Sold, with daysOnMarket, with the
\* sale/list pair) is empty.
C16_TotalOnEmpty ==
    pc = "calculated" =>
        /\ DOMAIN out = KPINames /\ Cardinality(KPINames) = 14
        /\ \A k \in KPINames : out[k] # NaN /\ out[k] # Undefined /\ out[k].t = "ratio"
        /\ kpiProperties = <<>> => \A k \in KPINames : out[k] = Whole(0)
        /\ SoldSubset = <<>> =>
              /\ out.medianSalePrice = Whole(0) /\ out.averageSalePrice = Whole(0)
              /\ out.saleToListRatio = Whole(0) /\ out.closedSalesCount = Whole(0)
        /\ (\A i \in 1..Len(kpiProperties) : kpiProperties[i].daysOnMarket = Undefined) =>
              out.averageDaysOnMarket = Whole(0) /\ out.medianDaysOnMarket = Whole(0)
        /\ (\A i \in 1..Len(SoldSubset) :
                SoldSubset[i].listPrice = Undefined \/ SoldSubset[i].salePrice = Undefined) =>
              out.saleToListRatio = Whole(0)

\* C16 witness: calculateKPIs has run on a non-empty list with no Sold
\* record and no record with daysOnMarket, and returned zeros for them.
C16_Witness ==
    /\ pc = "calculated"
    /\ kpiProperties # <<>>
    /\ SoldSubset = <<>>
    /\ \A i \in 1..Len(kpiProperties) : kpiProperties[i].daysOnMarket = Undefined
    /\ out.averageSalePrice = Whole(0) /\ out.medianDaysOnMarket = Whole(0)

\* the positive prices of the Sold subset
SoldPositivePrices ==
    LET kept == SelectSeq(SoldSubset, LAMBDA p : Positive(p.price))
    IN  [i \in 1..Len(kept) |-> RatioOf(kept[i].price)]

\* C18: medianSalePrice and averageSalePrice are the median and the mean
\* of price over the Sold-family records with a positive price, whatever
\* other records there are; closedSalesCount is the number of Sold-family
\* records; three Sold records at 200000, 250000, 400000 among Active ones
\* give a median of 250000.
C18_SalePriceOverSold ==
    pc = "calculated" =>
        /\ out.medianSalePrice = MedianOf(SoldPositivePrices)
        /\ out.averageSalePrice = MeanOf(SoldPositivePrices)
        /\ out.closedSalesCount = Whole(Len(SoldSubset))
        /\ kpiProperties = ThreeSold => out.medianSalePrice = Whole(250000)

\* C18 witness: the three Sold records among Active ones have been
\* aggregated.
C18_Witness ==
    /\ pc = "calculated"
    /\ kpiProperties = ThreeSold
    /\ out.medianSalePrice = Whole(250000)
    /\ out.averageSalePrice = Ratio(850000, 3)
    /\ out.closedSalesCount = Whole(3)

\* listPrice where the record has one, price otherwise
ListOrElsePrice(p) == IF p.listPrice # Undefined THEN p.listPrice ELSE p.price

\* the positive values of that sample over all records
ListPriceSample ==
    LET kept == SelectSeq(kpiProperties, LAMBDA p : Positive(ListOrElsePrice(p)))
    IN  [i \in 1..Len(kept) |-> RatioOf(ListOrElsePrice(kept[i]))]

\* C19: medianListPrice and averageListPrice are the median and the mean,
\* over all records, of listPrice where the record has a listPrice, whatever
\* its value, and of price otherwise, the non-positive values left out.
C19_ListPricePresentElsePrice ==
    pc = "calculated" =>
        /\ out.medianListPrice = MedianOf(ListPriceSample)
        /\ out.averageListPrice = MeanOf(ListPriceSample)

\* the number of Active-family records
ActiveCount ==
    Cardinality({i \in 1..Len(kpiProperties) : kpiProperties[i].status.s \in ActiveFamily})

\* the number of Sold-family records whose saleDate names a day of the
\* current month and year
SoldThisMonthCount ==
    Cardinality({i \in 1..Len(kpiProperties) :
                    /\ InSoldFamily(kpiProperties[i])
                    /\ kpiProperties[i].saleDate # Undefined
                    /\ isoMonth(kpiProperties[i].saleDate.s) = now.month + 1
                    /\ isoYear(kpiProperties[i].saleDate.s) = now.year})

\* C20: for a non-empty list monthsOfInventory is the number of Active
\* records divided by the number of Sold records whose saleDate is in the
\* current month and year, that number floored at 1; ten active listings
\* with none sold this month give exactly 10.
C20_MonthsOfInventory ==
    (pc = "calculated" /\ kpiProperties # <<>>) =>
        /\ out.monthsOfInventory =
               Ratio(ActiveCount, IF SoldThisMonthCount > 1 THEN SoldThisMonthCount ELSE 1)
        /\ kpiProperties = TenActive => out.monthsOfInventory = Whole(10)

---------------------------------------------------------------------------
(* The comparable selectors: findComparables of the CMA tool, and the      *)
(* selections analyzeProperty makes in the valuation analyst and in the    *)
(* property modal.  Their arithmetic is done on fractions, as above.       *)

MaxPool == 11       \* most records in a list drawn for the truncation of a selection
MaxVaried == 2      \* most records in a list drawn for the eligibility tests

\* a - b
Minus(a, b) == IF a = NaN \/ b = NaN THEN NaN ELSE Plus(a, Ratio(0 - b.n, b.d))

\* Math.abs(a)
AbsOf(a) == IF a = NaN THEN NaN ELSE Ratio(Abs(a.n), a.d)

\* a <= b (false when either is NaN)
AtMost(a, b) == a # NaN /\ b # NaN /\ ~Before(b, a)

\* !a for a number a
Falsy(a) == a = NaN \/ a.n = 0

\* a number value as a fraction, NaN staying NaN
Fraction(v) == IF v = NaN THEN NaN ELSE RatioOf(v)

\* parseInt(s) of a form input: an optional sign and the leading digits
parseIntDigits(s) ==
    IF DigitRun(s) = 0 THEN NaN ELSE Whole(DigitsValue(s, DigitRun(s)))

parseInt(s) ==
    LET t == trimStart(s) IN
    IF t # "" /\ Head(t) = "-"
    THEN Minus(Whole(0), parseIntDigits(Tail(t)))
    ELSE parseIntDigits(IF t # "" /\ Head(t) = "+" THEN Tail(t) ELSE t)

\* Math.abs(p.sqft - targetSqft)
sqftDiff(p, targetSqft) == AbsOf(Minus(RatioOf(p.sqft), targetSqft))

\* .sort((a, b) => a.sqftDiff - b.sqftDiff): the sort is stable, so p goes
\* behind the records that are not farther than it
RECURSIVE insertClosest(_, _, _)
insertClosest(p, sorted, targetSqft) ==
    IF sorted = <<>> THEN <<p>>
    ELSE IF Before(sqftDiff(p, targetSqft), sqftDiff(Head(sorted), targetSqft))
         THEN <<p>> \o sorted
         ELSE <<Head(sorted)>> \o insertClosest(p, Tail(sorted), targetSqft)

RECURSIVE closestFirst(_, _)
closestFirst(ps, targetSqft) ==
    IF ps = <<>> THEN <<>>
    ELSE insertClosest(ps[Len(ps)], closestFirst(SubSeq(ps, 1, Len(ps) - 1), targetSqft),
                       targetSqft)

\* .slice(0, n)
slice(ps, n) == SubSeq(ps, 1, IF Len(ps) < n THEN Len(ps) ELSE n)

\* the filter of findComparables
cmaMatch(p, subject, targetSqft, targetBeds, targetBaths) ==
    /\ p.status = Str("Sold") /\ Truthy(p.saleDate)
    /\ AtMost(sqftDiff(p, targetSqft), Times(targetSqft, Ratio(1, 5)))
    /\ RatioOf(p.beds) = targetBeds
    /\ AtMost(AbsOf(Minus(RatioOf(p.baths), targetBaths)), Ratio(1, 2))
    /\ (subject.zipCode # "" => p.zipCode = Str(subject.zipCode))

\* the record the map of findComparables makes of p
withCmaFields(p, targetSqft) ==
    [pricePerSqft |-> Quot(RatioOf(p.price), RatioOf(p.sqft)),
     sqftDiff |-> sqftDiff(p, targetSqft),
     adjustedPrice |-> p.price] @@ p

\* the selection with the slice taken before the sort
cmaSelectSliceFirst(subject, data, targetSqft, targetBeds, targetBaths) ==
    LET matched == SelectSeq(data,
            LAMBDA p : cmaMatch(p, subject, targetSqft, targetBeds, targetBaths))
        mapped == [i \in 1..Len(matched) |-> withCmaFields(matched[i], targetSqft)]
    IN  closestFirst(slice(mapped, 10), targetSqft)

\* filter, map, sort, slice
cmaSelect(subject, data, targetSqft, targetBeds, targetBaths) ==
    LET matched == SelectSeq(data,
            LAMBDA p : cmaMatch(p, subject, targetSqft, targetBeds, targetBaths))
        mapped == [i \in 1..Len(matched) |-> withCmaFields(matched[i], targetSqft)]
    IN  slice(closestFirst(mapped, targetSqft), 10)

findComparables(subject, data) ==
    IF subject.sqft = "" \/ subject.beds = "" \/ subject.baths = "" THEN <<>>
    ELSE cmaSelect(subject, data, parseInt(subject.sqft), parseInt(subject.beds),
                   parseInt(subject.baths))

\* the filter of the two valuation selections; the analyst skips the beds
\* and baths tests for a target that is 0 or NaN, the modal never does
valuationMatch(p, targetSqft, targetBeds, targetBaths, skipFalsy) ==
    /\ p.status = Str("C")
    /\ AtMost(sqftDiff(p, targetSqft), Times(targetSqft, Ratio(3, 10)))
    /\ \/ skipFalsy /\ Falsy(targetBeds)
       \/ AtMost(AbsOf(Minus(RatioOf(p.beds), targetBeds)), Whole(1))
    /\ \/ skipFalsy /\ Falsy(targetBaths)
       \/ AtMost(AbsOf(Minus(RatioOf(p.baths), targetBaths)), Whole(1))

valuationSelect(data, targetSqft, targetBeds, targetBaths, skipFalsy) ==
    slice(closestFirst(
              SelectSeq(data, LAMBDA p :
                  valuationMatch(p, targetSqft, targetBeds, targetBaths, skipFalsy)),
              targetSqft), 8)

\* analyzeProperty of the valuation analyst, up to its comparables
analystComparables(subject, data) ==
    valuationSelect(data, parseInt(subject.sqft), parseInt(subject.beds),
                    Fraction(parseFloat(subject.baths)), TRUE)

\* analyzeProperty of the property modal, up to its comparables
modalComparables(property, allProperties) ==
    valuationSelect(allProperties, RatioOf(property.sqft), RatioOf(property.beds),
                    RatioOf(property.baths), FALSE)

\* What the selectors are run on.  A subject as the forms hold it (strings).
Subject(sqft, beds, baths, zipCode) ==
    [address |-> "1 Main St", askingPrice |-> "300000", sqft |-> sqft, beds |-> beds,
     baths |-> baths, zipCode |-> zipCode]

Subjects ==
    {Subject(s, b, ba, z) : s \in {"2000", ""}, b \in {"3", ""}, ba \in {"2", "2.5"},
                            z \in {"", "81611"}}

ScenarioSubject == Subject("2000", "3", "2", "")

\* a sold record of 3 beds and 2 baths in 81611
SoldRecord ==
    [BaseProperty EXCEPT !.status = Str("Sold"), !.saleDate = Str("2024-03-05"),
                         !.zipCode = Str("81611"), !.sqft = Num(2000, 0)]

\* Records that differ from it in one respect each: the sqft of the
\* scenario and the edge of the band, the other Sold-family codes, a
\* missing sale date, beds, baths, zip, and an active listing.
VariedRecords ==
    { SoldRecord,
      [SoldRecord EXCEPT !.sqft = Num(2300, 0)],
      [SoldRecord EXCEPT !.sqft = Num(2600, 0)],
      [SoldRecord EXCEPT !.sqft = Num(2400, 0)],
      [SoldRecord EXCEPT !.sqft = Num(1599, 0)],
      [SoldRecord EXCEPT !.status = Str("C")],
      [SoldRecord EXCEPT !.status = Str("Closed")],
      [SoldRecord EXCEPT !.saleDate = Undefined],
      [SoldRecord EXCEPT !.beds = Num(4, 0)],
      [SoldRecord EXCEPT !.baths = Num(25, 1)],
      [SoldRecord EXCEPT !.baths = Num(3, 0)],
      [SoldRecord EXCEPT !.zipCode = Str("81615")],
      [SoldRecord EXCEPT !.status = Str("Active"), !.saleDate = Undefined] }

\* MaxPool records of one status whose sizes lie at 0 to 400 sqft on
\* either side of 2000, in no order of distance, several at each distance
poolOffset(i) == ((i * 3) % 5) * 100 * (IF i % 2 = 0 THEN 1 ELSE -1)

PoolOf(status) ==
    [i \in 1..MaxPool |->
        [SoldRecord EXCEPT !.id = i, !.status = Str(status),
                           !.sqft = Num(2000 + poolOffset(i), 0),
                           !.price = Num(300000 + 1000 * i, 0)]]

\* the records of base at the positions in S, in the order of base
RECURSIVE keep(_, _, _)
keep(base, S, n) ==
    IF n = 0 THEN <<>>
    ELSE keep(base, S, n - 1) \o (IF n \in S THEN <<base[n]>> ELSE <<>>)

\* the lists made of all but at most three of them
LargePools ==
    {keep(PoolOf(status), S, MaxPool) :
        status \in {"Sold", "C"},
        S \in {T \in SUBSET (1..MaxPool) : Cardinality(T) >= MaxPool - 3}}

SmallPools == SeqsUpTo(VariedRecords, MaxVaried)

\* the property the modal is opened on: the first or the last of the list
PropertiesOf(data) == IF data = <<>> THEN {Null} ELSE {data[1], data[Len(data)]}

ComparableInputs ==
    {[subjectProperty |-> s, property |-> p, data |-> d] :
        s \in Subjects, d \in SmallPools, p \in {Null}}
    \cup UNION {{[subjectProperty |-> ScenarioSubject, property |-> p, data |-> d] :
                    p \in PropertiesOf(d)} : d \in LargePools \cup SmallPools}

---------------------------------------------------------------------------
(* One selection by each of the three selectors (specification            *)
(* SpecComparables).                                                       *)

InitComparables ==
    /\ pc = "comparables"
    /\ comparables \in ComparableInputs
    /\ out = Null
    /\ IngestIdle
    /\ DashboardIdle
    /\ aiQuery = aiQueryInitial /\ csvData = csvDataInitial /\ modal = modalInitial
    /\ table = tableInitial /\ chat = chatInitial

\* const comparables = findComparables() of the CMA tool's render
CallFindComparables ==
    /\ pc = "comparables"
    /\ out' = [tool |-> "cma",
               list |-> findComparables(comparables.subjectProperty, comparables.data)]
    /\ pc' = "compared"
    /\ UNCHANGED <<ingestVars, dashboardVars, uiVars>>

\* the analyst's analyzeProperty returns at once without address, asking
\* price or sqft
CallAnalystComparables ==
    /\ pc = "comparables"
    /\ comparables.subjectProperty.address # ""
    /\ comparables.subjectProperty.askingPrice # ""
    /\ comparables.subjectProperty.sqft # ""
    /\ out' = [tool |-> "analyst",
               list |-> analystComparables(comparables.subjectProperty, comparables.data)]
    /\ pc' = "compared"
    /\ UNCHANGED <<ingestVars, dashboardVars, uiVars>>

\* the modal renders nothing, and so no Analyze button, without a property
CallModalComparables ==
    /\ pc = "comparables"
    /\ comparables.property # Null
    /\ out' = [tool |-> "modal",
               list |-> modalComparables(comparables.property, comparables.data)]
    /\ pc' = "compared"
    /\ UNCHANGED <<ingestVars, dashboardVars, uiVars>>

NextComparables == CallFindComparables \/ CallAnalystComparables \/ CallModalComparables

SpecComparables == InitComparables /\ [][NextComparables]_vars

---------------------------------------------------------------------------
(* Claims about the comparable selectors (specification SpecComparables). *)

\* the record a returned comparable was made of
original(c) == [f \in DOMAIN BaseProperty |-> c[f]]

\* the subject's numbers as the subject states them
statedNumber(s) == Fraction(parseFloat(s))

\* eligibility by the rule: in the Sold subset, sqft within 20% of the
\* subject's, the subject's beds, baths within 0.5 of the subject's, and
\* the subject's zip when the subject gives one
EligibleByRule(p, subject) ==
    /\ InSoldFamily(p)
    /\ AtMost(sqftDiff(p, statedNumber(subject.sqft)),
              Times(statedNumber(subject.sqft), Ratio(1, 5)))
    /\ RatioOf(p.beds) = statedNumber(subject.beds)
    /\ AtMost(AbsOf(Minus(RatioOf(p.baths), statedNumber(subject.baths))), Ratio(1, 2))
    /\ (subject.zipCode # "" => p.zipCode = Str(subject.zipCode))

\* C21: for a subject that states sqft, beds and baths, the records
\* findComparables returns are exactly the records of the list that are
\* eligible by the rule (as long as there are no more than 10 of them), and
\* it returns the empty list when none is; with subject sqft 2000 a record
\* of 2300 is returned and a record of 2600 is not.
C21_EligibleIffRule ==
    (pc = "compared" /\ out.tool = "cma"
        /\ comparables.subjectProperty.sqft # ""
        /\ comparables.subjectProperty.beds # ""
        /\ comparables.subjectProperty.baths # "") =>
        LET eligible == SelectSeq(comparables.data,
                LAMBDA p : EligibleByRule(p, comparables.subjectProperty))
        IN  Len(eligible) <= 10 =>
                {original(out.list[i]) : i \in 1..Len(out.list)}
                    = {eligible[i] : i \in 1..Len(eligible)}

\* the records that pass the filter of the selector that was run
Passing ==
    LET s == comparables.subjectProperty IN
    CASE out.tool = "cma" ->
           SelectSeq(comparables.data, LAMBDA p :
               cmaMatch(p, s, parseInt(s.sqft), parseInt(s.beds), parseInt(s.baths)))
      [] out.tool = "analyst" ->
           SelectSeq(comparables.data, LAMBDA p :
               valuationMatch(p, parseInt(s.sqft), parseInt(s.beds),
                              Fraction(parseFloat(s.baths)), TRUE))
      [] OTHER ->
           SelectSeq(comparables.data, LAMBDA p :
               valuationMatch(p, RatioOf(comparables.property.sqft),
                              RatioOf(comparables.property.beds),
                              RatioOf(comparables.property.baths), FALSE))

\* the sqft the distances are taken from
SubjectSqft ==
    IF out.tool = "modal" THEN RatioOf(comparables.property.sqft)
    ELSE parseInt(comparables.subjectProperty.sqft)

Maximum == IF out.tool = "cma" THEN 10 ELSE 8

---------------------------------------------------------------------------
(* The query answering adapter: AIService.queryData on the client, the     *)
(* /api/ai/query route on the server, and the local fallbackAnalysis.      *)

\* Math.round of a fraction: the nearest integer, halves going up
round(a) ==
    IF a = NaN \/ a.t = "infinity" THEN a ELSE Whole((2 * a.n + a.d) \div (2 * a.d))

\* data.map(p => p.price) and the like, as fractions
pricesOf(data) == [i \in 1..Len(data) |-> RatioOf(data[i].price)]

\* sum / length, NaN for the empty list (0 / 0)
meanOrNaN(vs) == Quot(sum(vs), Whole(Len(vs)))

\* sorted[Math.floor(length / 2)], undefined for the empty list; Math.round
\* makes NaN of undefined
upperMiddle(vs) ==
    IF vs = <<>> THEN NaN ELSE sortAscending(vs)[(Len(vs) \div 2) + 1]

\* Math.min(...vs) and Math.max(...vs): Infinity and -Infinity for no argument
minOf(vs) ==
    IF vs = <<>> THEN Infinity(FALSE)
    ELSE CHOOSE x \in {vs[i] : i \in 1..Len(vs)} :
             \A j \in 1..Len(vs) : ~Before(vs[j], x)

maxOf(vs) ==
    IF vs = <<>> THEN Infinity(TRUE)
    ELSE CHOOSE x \in {vs[i] : i \in 1..Len(vs)} :
             \A j \in 1..Len(vs) : ~Before(x, vs[j])

\* the branch for 'average price' and 'median price'
priceAnswer(data) ==
    [answer |-> [about |-> "price", average |-> round(meanOrNaN(pricesOf(data))),
                 median |-> round(upperMiddle(pricesOf(data)))],
     data |-> [count |-> Len(data), average |-> round(meanOrNaN(pricesOf(data))),
               median |-> round(upperMiddle(pricesOf(data)))]]

\* the branch for 'days on market' and 'dom'
domAnswer(data) ==
    LET withDom == SelectSeq(data, LAMBDA p : Truthy(p.daysOnMarket))
        doms == [i \in 1..Len(withDom) |-> RatioOf(withDom[i].daysOnMarket)]
    IN  [answer |-> [about |-> "dom", average |-> round(meanOrNaN(doms)),
                     count |-> Len(doms)],
         data |-> [count |-> Len(doms), averageDom |-> round(meanOrNaN(doms))]]

\* bedCounts: how many records there are of each number of beds
bedCounts(data) ==
    [b \in {data[i].beds : i \in 1..Len(data)} |->
        Cardinality({i \in 1..Len(data) : data[i].beds = b})]

\* Object.entries(bedCounts).sort(([,a], [,b]) => b - a)[0]: the entries of
\* whole keys come in ascending order and the sort is stable, so it is the
\* smallest of the most frequent numbers of beds; undefined without entries
mostCommon(counts) ==
    IF DOMAIN counts = {} THEN Undefined
    ELSE CHOOSE b \in DOMAIN counts :
             \A c \in DOMAIN counts :
                 \/ counts[c] < counts[b]
                 \/ counts[c] = counts[b] /\ ~Before(RatioOf(c), RatioOf(b))

\* a TypeError thrown where a value was to be returned
TypeError == [t |-> "thrown", error |-> "TypeError"]

\* the branch for 'bedroom' and 'bed': mostCommon[0] throws on undefined
bedAnswer(data) ==
    IF mostCommon(bedCounts(data)) = Undefined THEN TypeError
    ELSE [answer |-> [about |-> "beds", keys |-> DOMAIN bedCounts(data),
                      mostCommon |-> mostCommon(bedCounts(data)),
                      properties |-> bedCounts(data)[mostCommon(bedCounts(data))]],
          data |-> bedCounts(data)]

\* the default branch
defaultAnswer(data) ==
    [answer |-> [about |-> "dataset", count |-> Len(data),
                 min |-> minOf(pricesOf(data)), max |-> maxOf(pricesOf(data))],
     data |-> [totalProperties |-> Len(data), minPrice |-> minOf(pricesOf(data)),
               maxPrice |-> maxOf(pricesOf(data))]]

fallbackAnalysis(query, data) ==
    LET queryLower == toLowerCase(query) IN
    IF includes(queryLower, "average price") \/ includes(queryLower, "median price")
    THEN priceAnswer(data)
    ELSE IF includes(queryLower, "days on market") \/ includes(queryLower, "dom")
    THEN domAnswer(data)
    ELSE IF includes(queryLower, "bedroom") \/ includes(queryLower, "bed")
    THEN bedAnswer(data)
    ELSE defaultAnswer(data)

\* The answers the server words itself.
NotConfigured ==
    [answer |-> Str("AI service is not configured. Please provide an OpenAI API key to enable AI features."),
     data |-> [error |-> "No API key configured"]]

Trouble ==
    [answer |-> Str("I'm having trouble processing your request right now. Please try again later."),
     data |-> [error |-> "Internal server error"]]

CouldNotProcess ==
    [answer |-> Str("I couldn't process that query. Please try rephrasing."), data |-> <<>>]

\* an answer of the language model, whatever it says
ModelAnswer == [answer |-> Str("(the model's answer)"), data |-> <<>>]

\* What the request can meet: no network, a server without an OpenAI key,
\* a model call that throws or times out, content that is not JSON, JSON
\* without an answer, and an answer.
ServerCases ==
    {"unreachable", "no credential", "throws", "malformed", "no answer", "answers"}

\* the route's response: status and JSON body
routeResponse(server) ==
    CASE server = "no credential" -> [status |-> 200, body |-> NotConfigured]
      [] server \in {"throws", "malformed"} -> [status |-> 500, body |-> Trouble]
      [] server = "no answer" -> [status |-> 200, body |-> CouldNotProcess]
      [] OTHER -> [status |-> 200, body |-> ModelAnswer]

\* the questions asked
Queries ==
    {"Average price by city", "median price?", "Days on Market", "random",
     "3 bedroom homes", "bed", "Best cap rate investments", ""}

AdapterInputs ==
    {[query |-> q, data |-> d, server |-> s, requests |-> 0, response |-> Null] :
        q \in Queries, d \in FilterLists, s \in ServerCases}

---------------------------------------------------------------------------
(* One queryData call (specification SpecAdapter). *)

InitAdapter ==
    /\ pc = "query"
    /\ aiQuery \in AdapterInputs
    /\ out = Null
    /\ IngestIdle
    /\ DashboardIdle
    /\ comparables = comparablesInitial /\ csvData = csvDataInitial
    /\ modal = modalInitial /\ table = tableInitial /\ chat = chatInitial

adapterFrame == UNCHANGED <<ingestVars, dashboardVars, comparables, csvData, modal, table, chat>>

\* queryData issues its one apiRequest
CallQueryData ==
    /\ pc = "query"
    /\ aiQuery' = [aiQuery EXCEPT !.requests = @ + 1]
    /\ pc' = "requesting"
    /\ UNCHANGED out
    /\ adapterFrame

\* the request does not reach the server: apiRequest throws
TransportFails ==
    /\ pc = "requesting"
    /\ aiQuery.server = "unreachable"
    /\ pc' = "caught"
    /\ UNCHANGED <<out, aiQuery>>
    /\ adapterFrame

\* the route handler answers
ServeQuery ==
    /\ pc = "requesting"
    /\ aiQuery.server # "unreachable"
    /\ aiQuery' = [aiQuery EXCEPT !.response = routeResponse(aiQuery.server)]
    /\ pc' = "responded"
    /\ UNCHANGED out
    /\ adapterFrame

\* apiRequest hands the response over and queryData returns its JSON.
\* What apiRequest does with a status that is not 2xx is queryClient's
\* business: it may hand the response over like any other, or throw.
ReturnResponse ==
    /\ pc = "responded"
    /\ out' = [state |-> "resolved", value |-> aiQuery.response.body]
    /\ pc' = "settled"
    /\ UNCHANGED aiQuery
    /\ adapterFrame

ThrowOnStatus ==
    /\ pc = "responded"
    /\ aiQuery.response.status # 200
    /\ pc' = "caught"
    /\ UNCHANGED <<out, aiQuery>>
    /\ adapterFrame

\* catch (error) { return this.fallbackAnalysis(query, data) }: what the
\* fallback throws rejects the promise
Fallback ==
    /\ pc = "caught"
    /\ out' = IF fallbackAnalysis(aiQuery.query, aiQuery.data) = TypeError
              THEN Rejected("TypeError")
              ELSE [state |-> "resolved",
                    value |-> fallbackAnalysis(aiQuery.query, aiQuery.data)]
    /\ pc' = "settled"
    /\ UNCHANGED aiQuery
    /\ adapterFrame

NextAdapter ==
    CallQueryData \/ TransportFails \/ ServeQuery \/ ReturnResponse \/ ThrowOnStatus
        \/ Fallback

SpecAdapter == InitAdapter /\ [][NextAdapter]_vars

---------------------------------------------------------------------------
(* Claims about the adapter (specification SpecAdapter). *)

\* C22: queryData makes at most one request, and its promise never
\* rejects: whatever the query and the record list, once the call has
\* settled it has resolved with an AIResponse, the fallback's when the
\* request failed.
C22_NeverRejects ==
    /\ aiQuery.requests <= 1
    /\ pc = "settled" =>
          /\ out.state = "resolved"
          /\ "answer" \in DOMAIN out.value
          /\ aiQuery.server = "unreachable" =>
                out.value = fallbackAnalysis(aiQuery.query, aiQuery.data)

\* C23: when the server has no OpenAI key, when the model call throws or
\* times out and when the model's content is malformed, what queryData
\* delivers is what fallbackAnalysis computes from the query and the records.
C23_FailuresReachFallback ==
    (pc = "settled" /\ aiQuery.server \in {"no credential", "throws", "malformed"}) =>
        out = [state |-> "resolved",
               value |-> fallbackAnalysis(aiQuery.query, aiQuery.data)]

---------------------------------------------------------------------------
(* PropertyTable: its sorted view, its export, and the export read back    *)
(* by the ingestion pipeline.                                              *)

\* the comparator of sortedData for a number column: negative when a goes
\* before b
sortsBefore(a, b, sortField, sortDirection) ==
    IF sortDirection = "asc"
    THEN Before(RatioOf(a[sortField]), RatioOf(b[sortField]))
    ELSE Before(RatioOf(b[sortField]), RatioOf(a[sortField]))

RECURSIVE insertRow(_, _, _, _)
insertRow(p, sorted, sortField, sortDirection) ==
    IF sorted = <<>> THEN <<p>>
    ELSE IF sortsBefore(p, Head(sorted), sortField, sortDirection)
         THEN <<p>> \o sorted
         ELSE <<Head(sorted)>> \o insertRow(p, Tail(sorted), sortField, sortDirection)

\* [...data].sort(...): a sorted copy, equal rows keeping their order
RECURSIVE sortedData(_, _, _)
sortedData(data, sortField, sortDirection) ==
    IF data = <<>> THEN <<>>
    ELSE insertRow(data[Len(data)],
                   sortedData(SubSeq(data, 1, Len(data) - 1), sortField, sortDirection),
                   sortField, sortDirection)

\* the decimal digits of a natural number
RECURSIVE digitsOf(_)
digitsOf(n) ==
    IF n < 10 THEN CharAt(Digits, n + 1)
    ELSE digitsOf(n \div 10) \o CharAt(Digits, (n % 10) + 1)

\* the last k decimal digits of n, zeros included
RECURSIVE lastDigits(_, _)
lastDigits(n, k) ==
    IF k = 0 THEN "" ELSE lastDigits(n \div 10, k - 1) \o CharAt(Digits, (n % 10) + 1)

\* String(v) of a number, as join(',') writes it
numberToString(v) ==
    CASE v = NaN -> "NaN"
      [] v.t = "infinity" -> (IF v.neg THEN "-Infinity" ELSE "Infinity")
      [] v.t = "ratio" -> (IF v.n < 0 THEN "-" ELSE "") \o digitsOf(Abs(v.n))
      [] OTHER ->
           (IF v.m < 0 THEN "-" ELSE "") \o digitsOf(Abs(v.m) \div Pow10(v.e))
               \o (IF v.e = 0 THEN "" ELSE "." \o lastDigits(Abs(v.m), v.e))

exportHeaders ==
    <<"Address", "City", "Price", "Beds", "Baths", "Sq Ft", "Price/Sq Ft", "DOM", "Status">>

\* one line of the export, as the cells a CSV reader finds in it: the
\* quotes around address and city are the reader's to remove
exportRow(property) ==
    << property.address.s,
       property.city.s,
       numberToString(property.price),
       numberToString(property.beds),
       numberToString(property.baths),
       numberToString(property.sqft),
       numberToString(round(Quot(RatioOf(property.price), RatioOf(property.sqft)))),
       IF Truthy(property.daysOnMarket) THEN numberToString(property.daysOnMarket) ELSE "",
       property.status.s >>

\* the rows transformRow accepts, in order; ids[i] is what Math.random gives row i
RECURSIVE transformAll(_, _, _, _, _)
transformAll(rs, hs, m, ids, n) ==
    IF n = 0 THEN <<>>
    ELSE pushRow(transformAll(rs, hs, m, ids, n - 1), transformRow(rs[n], hs, m, ids[n]))

MaxExport == 2      \* most records in an exported list

\* Records as ingestion builds them: whole and fractional numbers, a sqft
\* that is the transformer's default and sqfts that are not.
ExportRecords ==
    { [BaseProperty EXCEPT !.id = 1],
      [BaseProperty EXCEPT !.id = 2, !.price = Num(2505005, 1), !.baths = Num(25, 1),
                           !.sqft = Num(1000, 0), !.daysOnMarket = Num(12, 0)],
      [BaseProperty EXCEPT !.id = 1, !.city = Str("Basalt"), !.price = Num(600000, 0),
                           !.beds = Num(4, 0), !.sqft = Num(2400, 0),
                           !.status = Str("Sold")],
      [BaseProperty EXCEPT !.id = 2, !.address = Str("2 Elm St, Unit 4"),
                           !.price = Num(99, 0), !.beds = Num(0, 0), !.baths = Num(1, 0),
                           !.sqft = Num(1000, 0), !.status = Str("C")] }

ExportLists == SeqsUpTo(ExportRecords, MaxExport)

---------------------------------------------------------------------------
(* Export of the table and ingestion of the exported text (specification  *)
(* SpecExport).                                                            *)

InitExport ==
    /\ pc = "table"
    /\ \E d \in ExportLists, f \in {"price", "sqft"}, dir \in {"asc", "desc"} :
          table = [tableInitial EXCEPT !.data = d, !.sortField = f, !.sortDirection = dir]
    /\ out = Null
    /\ IngestIdle
    /\ DashboardIdle
    /\ comparables = comparablesInitial /\ aiQuery = aiQueryInitial
    /\ csvData = csvDataInitial /\ modal = modalInitial /\ chat = chatInitial

\* exportToCSV: the header line and one line per row of sortedData
exportToCSV ==
    /\ pc = "table"
    /\ headers' = exportHeaders
    /\ rows' = [i \in 1..Len(table.data) |->
                   exportRow(sortedData(table.data, table.sortField,
                                        table.sortDirection)[i])]
    /\ pc' = "exported"
    /\ UNCHANGED <<mapping, hi, index, transformedData, errors, settled, out>>
    /\ UNCHANGED <<dashboardVars, uiVars>>

\* the exported file read back: detectColumnMapping over its headers, then
\* transformRow over its rows
Reingest ==
    /\ pc = "exported"
    /\ mapping' = detectColumnMapping(headers)
    /\ \E ids \in [1..Len(rows) -> Ids] :
          transformedData' =
              transformAll(rows, headers, detectColumnMapping(headers), ids, Len(rows))
    /\ pc' = "reingested"
    /\ UNCHANGED <<headers, rows, hi, index, errors, settled, out>>
    /\ UNCHANGED <<dashboardVars, uiVars>>

NextExport == exportToCSV \/ Reingest

SpecExport == InitExport /\ [][NextExport]_vars

\* C24: the records read back from the export are as many as the records
\* exported and have, row by row, the price, beds, baths and sqft of the
\* exported records.
C24_RoundTrip ==
    pc = "reingested" =>
        \A exported \in {sortedData(table.data, table.sortField, table.sortDirection)} :
            /\ Len(transformedData) = Len(exported)
            /\ \A i \in 1..Len(exported) :
                  /\ transformedData[i].price = exported[i].price
                  /\ transformedData[i].beds = exported[i].beds
                  /\ transformedData[i].baths = exported[i].baths
                  /\ transformedData[i].sqft = exported[i].sqft

---------------------------------------------------------------------------
(* Claim about the diagnostics of processCSV (specification Spec). *)

\* the messages of errors that speak of one row ("Row n: ...")
RowMessages == SelectSeq(errors, LAMBDA e : StartsWith(e, "Row "))

\* C25: once the rows of a file have been gone through, errors holds no
\* more than 5 row-level messages, and if rows were rejected it holds a
\* row-level message for the first of them at least.
C25_RowDiagnostics ==
    /\ Len(RowMessages) <= 5
    /\ (pc \in {"resolved", "rejected"} /\ index > Len(transformedData)) =>
          Len(RowMessages) >= 1

---------------------------------------------------------------------------
(* useCSVData (specification SpecUpload).  csvData.running holds the file  *)
(* of the uploadCSV call that is waiting for processCSV, csvData.toast the *)
(* title of the toast shown last.  A record list held in data is wrapped   *)
(* as Array(list) to tell it from null.                                    *)

Array(items) == [t |-> "array", items |-> items]

\* The files dropped: a name and what processCSV makes of the file.  It
\* rejects, or resolves with at least one record.
UploadFiles ==
    {[name |-> n, result |-> r] :
        n \in {"march.csv", "april.csv"},
        r \in {Rejected("Failed to parse CSV file")}
              \cup {Resolved(d, emptyMapping, e) :
                        d \in FilterLists \ {<<>>},
                        e \in {<<>>, <<"Could not detect size information (square feet, lot size, etc.).">>}}}

InitUpload ==
    /\ pc = "upload"
    /\ csvData = csvDataInitial
    /\ out = Null
    /\ IngestIdle
    /\ DashboardIdle
    /\ comparables = comparablesInitial /\ aiQuery = aiQueryInitial
    /\ modal = modalInitial /\ table = tableInitial /\ chat = chatInitial

uploadFrame ==
    UNCHANGED <<pc, out, ingestVars, dashboardVars, comparables, aiQuery, modal, table, chat>>

\* uploadCSV up to its await.  The drop zone is disabled while isLoading.
\* Dashboard mounts it on the empty view only; the hook takes a file with a
\* set loaded as well, and so does the model.
uploadCSV ==
    /\ ~csvData.isLoading
    /\ \E file \in UploadFiles :
          csvData' = [csvData EXCEPT !.isLoading = TRUE, !.running = <<file>>]
    /\ uploadFrame

\* what the catch and the finally leave of the state: a destructive toast,
\* isLoading false
afterRejectCleared(state) ==
    [state EXCEPT !.data = Null, !.fileName = "", !.rowCount = 0,
                  !.isLoading = FALSE, !.running = <<>>, !.toast = "Upload Failed"]

afterReject(state) ==
    [state EXCEPT !.isLoading = FALSE, !.running = <<>>, !.toast = "Upload Failed"]

\* processCSV rejected
UploadRejected ==
    /\ csvData.running # <<>>
    /\ csvData.running[1].result.state = "rejected"
    /\ csvData' = afterReject(csvData)
    /\ uploadFrame

\* processCSV resolved: the warnings are shown, then the set replaces the
\* one held, then the finally runs
UploadResolved ==
    /\ csvData.running # <<>>
    /\ csvData.running[1].result.state = "resolved"
    /\ csvData' =
          IF Len(csvData.running[1].result.data) = 0
          THEN afterReject(csvData)
          ELSE [csvData EXCEPT !.data = Array(csvData.running[1].result.data),
                               !.fileName = csvData.running[1].name,
                               !.rowCount = Len(csvData.running[1].result.data),
                               !.isLoading = FALSE, !.running = <<>>,
                               !.toast = "Success"]
    /\ uploadFrame

\* resetData, behind the button of the loaded view, where no upload runs
resetData ==
    /\ csvData.data # Null
    /\ csvData.running = <<>>
    /\ csvData' = [csvData EXCEPT !.data = Null, !.fileName = "", !.rowCount = 0]
    /\ uploadFrame

NextUpload == uploadCSV \/ UploadRejected \/ UploadResolved \/ resetData

SpecUpload == InitUpload /\ [][NextUpload]_vars

\* C27: isLoading is true exactly while an upload is running; rowCount is
\* the length of data whenever data is not null; and the step that ends an
\* upload whose processCSV rejected leaves data, fileName and rowCount as
\* they were.
C27_UploadStateMachine ==
    /\ [](/\ csvData.isLoading <=> csvData.running # <<>>
          /\ csvData.data # Null => csvData.rowCount = Len(csvData.data.items))
    /\ [][(csvData.running # <<>> /\ csvData.running[1].result.state = "rejected"
              /\ csvData'.running = <<>>) =>
             /\ ~csvData'.isLoading
             /\ csvData'.data = csvData.data
             /\ csvData'.fileName = csvData.fileName
             /\ csvData'.rowCount = csvData.rowCount]_vars

\* C27 witness: an upload has just failed while a set was loaded, and the
\* set is still there.
C27_Witness ==
    /\ csvData.toast = "Upload Failed"
    /\ ~csvData.isLoading
    /\ csvData.data # Null
    /\ csvData.fileName = "march.csv"
    /\ csvData.rowCount = 2

---------------------------------------------------------------------------
(* PropertyDetailModal under Dashboard (specification SpecModal).         *)
(* modal.property is Dashboard's selectedProperty, modal.running the       *)
(* property that the analyzeProperty call waiting for the adapter closed   *)
(* over.  The component stays mounted while no property is selected (it    *)
(* renders null), so its state outlives the selection.  The records of the *)
(* program carry no photoUrls (transformRow sets none), so the photo list  *)
(* is empty and the photo buttons are never rendered.                      *)

\* the part of the analysis that is computed from the records: the fields
\* taken from the adapter's answer are left out
valuation(property, allProperties) ==
    LET found == modalComparables(property, allProperties)
        avgPricePerSqft ==
            meanOrNaN([i \in 1..Len(found) |->
                          Quot(RatioOf(found[i].price), RatioOf(found[i].sqft))])
    IN  [estimatedValue |-> round(Times(avgPricePerSqft, RatioOf(property.sqft))),
         confidenceLevel |-> IF Len(found) >= 5 THEN "High"
                             ELSE IF Len(found) >= 3 THEN "Medium" ELSE "Low",
         comparableCount |-> Len(found)]

\* The records loaded: closed sales of different sizes and a listing.
ModalRecords ==
    { [BaseProperty EXCEPT !.id = 1, !.status = Str("C"), !.sqft = Num(1500, 0),
                           !.price = Num(300000, 0)],
      [BaseProperty EXCEPT !.id = 2, !.status = Str("C"), !.sqft = Num(1800, 0),
                           !.price = Num(450000, 0)],
      [BaseProperty EXCEPT !.id = 3, !.status = Str("Active"), !.sqft = Num(3000, 0),
                           !.price = Num(900000, 0)] }

MaxLoaded == 3      \* most records loaded when the modal is used

ModalLists == SeqsUpTo(ModalRecords, MaxLoaded) \ {<<>>}

InitModal ==
    /\ pc = "modal"
    /\ \E d \in ModalLists : modal = [modalInitial EXCEPT !.allProperties = d]
    /\ out = Null
    /\ IngestIdle
    /\ DashboardIdle
    /\ comparables = comparablesInitial /\ aiQuery = aiQueryInitial
    /\ csvData = csvDataInitial /\ table = tableInitial /\ chat = chatInitial

modalFrame ==
    UNCHANGED <<pc, out, ingestVars, dashboardVars, comparables, aiQuery, csvData, table, chat>>

\* a row of the table is clicked: setSelectedProperty(property).  The rows
\* are out of reach while the dialog is open.
handlePropertySelect ==
    /\ modal.property = Null
    /\ \E i \in 1..Len(modal.allProperties) :
          modal' = [modal EXCEPT !.property = modal.allProperties[i]]
    /\ modalFrame

\* onClose: setSelectedProperty(null)
handleClosePropertyModal ==
    /\ modal.property # Null
    /\ modal' = [modal EXCEPT !.property = Null]
    /\ modalFrame

\* the Analyze button, rendered while there is no analysis and enabled
\* while none is being made: analyzeProperty up to its await
analyzeProperty ==
    /\ modal.property # Null
    /\ modal.analysis = Null
    /\ ~modal.isAnalyzing
    /\ modal' = [modal EXCEPT !.isAnalyzing = TRUE, !.running = <<modal.property>>]
    /\ modalFrame

\* the adapter has answered: setAnalysis of what was computed for the
\* property closed over, then the finally.  (The prompt holds 'Days on
\* Market', so the adapter's fallback does not throw and the catch of
\* analyzeProperty is not entered.)
AnalysisCompleted ==
    /\ modal.running # <<>>
    /\ modal' = [modal EXCEPT !.analysis = valuation(modal.running[1], modal.allProperties),
                              !.isAnalyzing = FALSE, !.running = <<>>]
    /\ modalFrame

NextModal ==
    handlePropertySelect \/ handleClosePropertyModal \/ analyzeProperty \/ AnalysisCompleted

SpecModal == InitModal /\ [][NextModal]_vars

\* C28: whenever the modal shows a property and an analysis, the analysis
\* is the one computed for that property; and the photo index is an index
\* of the property's photo list whenever the list is not empty (no record
\* of the program has photos, so that half is true of every state).
C28_AnalysisOfShownProperty ==
    (modal.property # Null /\ modal.analysis # Null) =>
        modal.analysis = valuation(modal.property, modal.allProperties)

---------------------------------------------------------------------------
(* Pagination of PropertyTable (specification SpecTable).  table.data is   *)
(* the filteredData Dashboard passes in; it changes when the filters do,   *)
(* while the table stays mounted.                                          *)

MaxTableRows == 51  \* most records in the list the table is given
MaxPage == 4        \* the page number at which the model stops pressing Next

\* Math.ceil(sortedData.length / pageSize)
totalPages(state) == (Len(state.data) + state.pageSize - 1) \div state.pageSize

\* sortedData.slice(startIndex, endIndex)
paginatedData(state) ==
    LET startIndex == (state.currentPage - 1) * state.pageSize
        endIndex == startIndex + state.pageSize
        sorted == sortedData(state.data, state.sortField, state.sortDirection)
    IN  SubSeq(sorted, startIndex + 1, IF endIndex < Len(sorted) THEN endIndex ELSE Len(sorted))

\* Lists of none, one, a little over half of and all of MaxTableRows records.
TableLists ==
    {[i \in 1..n |-> [BaseProperty EXCEPT !.id = i, !.price = Num(100000 + 1000 * i, 0)]] :
        n \in {0, 1, (MaxTableRows \div 2) + 1, MaxTableRows}}

InitTable ==
    /\ pc = "table"
    /\ \E d \in TableLists : table = [tableInitial EXCEPT !.data = d]
    /\ out = Null
    /\ IngestIdle
    /\ DashboardIdle
    /\ comparables = comparablesInitial /\ aiQuery = aiQueryInitial
    /\ csvData = csvDataInitial /\ modal = modalInitial /\ chat = chatInitial

tableFrame ==
    UNCHANGED <<pc, out, ingestVars, dashboardVars, comparables, aiQuery, csvData, modal, chat>>

\* a column header is clicked
handleSort ==
    /\ \E field \in {"price", "sqft"} :
          table' = IF table.sortField = field
                   THEN [table EXCEPT !.sortDirection = IF @ = "asc" THEN "desc" ELSE "asc"]
                   ELSE [table EXCEPT !.sortField = field, !.sortDirection = "desc"]
    /\ tableFrame

\* the page-size select
changePageSize ==
    /\ \E size \in {25, 50, 100} :
          table' = [table EXCEPT !.pageSize = size, !.currentPage = 1]
    /\ tableFrame

\* Previous, disabled on page 1
previousPage ==
    /\ table.currentPage # 1
    /\ table' = [table EXCEPT !.currentPage = @ - 1]
    /\ tableFrame

\* one of the page-number buttons 1..min(5, totalPages)
goToPage ==
    /\ \E page \in 1..(IF totalPages(table) < 5 THEN totalPages(table) ELSE 5) :
          table' = [table EXCEPT !.currentPage = page]
    /\ tableFrame

\* Next, disabled on the page whose number is totalPages
nextPage ==
    /\ table.currentPage # totalPages(table)
    /\ table.currentPage < MaxPage
    /\ table' = [table EXCEPT !.currentPage = @ + 1]
    /\ tableFrame

\* the filters change and another filteredData comes in: no state of the
\* table is touched
dataChanged ==
    /\ \E d \in TableLists : table' = [table EXCEPT !.data = d]
    /\ tableFrame

NextTable ==
    handleSort \/ changePageSize \/ previousPage \/ goToPage \/ nextPage \/ dataChanged

SpecTable == InitTable /\ [][NextTable]_vars

\* C29: currentPage stays within 1..max(1, totalPages), and the page shown
\* is not empty whenever the data is not empty.
C29_PageInRange ==
    /\ table.currentPage >= 1
    /\ table.currentPage <= (IF totalPages(table) < 1 THEN 1 ELSE totalPages(table))
    /\ table.data # <<>> => paginatedData(table) # <<>>

---------------------------------------------------------------------------
(* AIChat (specification SpecChat).  The ids and timestamps of the         *)
(* messages come from the clock and are left out.                          *)

MaxMessages == 5    \* most messages in the conversation

\* if (!input.trim() || isLoading) return
sendBlocked(state) == trim(state.input) = "" \/ state.isLoading

\* the query at place i of running is over, isLoading left as it is
stillLoading(state, i) ==
    [state EXCEPT !.running = SubSeq(@, 1, i - 1) \o SubSeq(@, i + 1, Len(@))]

\* finally { setIsLoading(false) }: the query at place i of running is over
finishQuery(state, i) ==
    [state EXCEPT !.isLoading = FALSE,
                  !.running = SubSeq(@, 1, i - 1) \o SubSeq(@, i + 1, Len(@))]

\* What aiService.queryData settles with when the request meets the server
\* case; throws says whether apiRequest throws on a status that is not 2xx.
queryData(query, data, server, throws) ==
    IF server = "unreachable" \/ (throws /\ routeResponse(server).status # 200)
    THEN IF fallbackAnalysis(query, data) = TypeError
         THEN Rejected("TypeError")
         ELSE [state |-> "resolved", value |-> fallbackAnalysis(query, data)]
    ELSE [state |-> "resolved", value |-> routeResponse(server).body]

suggestedQueries ==
    {"Average price by city", "Properties under 30 DOM", "Best cap rate investments",
     "Price trends last 6 months"}

\* what the user types
TypedTexts == {"", "  ", "bed"}

InitChat ==
    /\ pc = "chat"
    /\ \E d \in {<<>>, <<BaseProperty>>} : chat = [chatInitial EXCEPT !.data = d]
    /\ out = Null
    /\ IngestIdle
    /\ DashboardIdle
    /\ comparables = comparablesInitial /\ aiQuery = aiQueryInitial
    /\ csvData = csvDataInitial /\ modal = modalInitial /\ table = tableInitial

chatFrame ==
    UNCHANGED <<pc, out, ingestVars, dashboardVars, comparables, aiQuery, csvData, modal, table>>

\* the text field's onChange; the field is disabled while loading
setInput ==
    /\ ~chat.isLoading
    /\ \E text \in TypedTexts : chat' = [chat EXCEPT !.input = text]
    /\ chatFrame

\* one of the suggestion buttons, disabled while loading
handleSuggestedQuery ==
    /\ ~chat.isLoading
    /\ \E query \in suggestedQueries : chat' = [chat EXCEPT !.input = query]
    /\ chatFrame

\* the send button or Enter (handleKeyPress): handleSend up to its await
handleSend ==
    /\ Len(chat.messages) + 2 <= MaxMessages
    /\ IF sendBlocked(chat)
       THEN UNCHANGED chat
       ELSE chat' = [chat EXCEPT
                        !.messages = Append(@, [type |-> "user", content |-> chat.input]),
                        !.input = "",
                        !.isLoading = TRUE,
                        !.running = Append(@, chat.input)]
    /\ chatFrame

\* queryData resolved: the answer is appended, then the finally
QueryResolved ==
    /\ \E i \in 1..Len(chat.running), server \in ServerCases, throws \in BOOLEAN :
          LET response == queryData(chat.running[i], chat.data, server, throws) IN
          /\ response.state = "resolved"
          /\ chat' = finishQuery([chat EXCEPT
                                  !.messages = Append(@, [type |-> "ai",
                                                          content |-> response.value.answer])],
                              i)
    /\ chatFrame

\* queryData rejected: the catch shows the toast, then the finally
QueryRejected ==
    /\ \E i \in 1..Len(chat.running), server \in ServerCases, throws \in BOOLEAN :
          /\ queryData(chat.running[i], chat.data, server, throws).state = "rejected"
          /\ chat' = finishQuery([chat EXCEPT !.toast = "Error"], i)
    /\ chatFrame

NextChat ==
    setInput \/ handleSuggestedQuery \/ handleSend \/ QueryResolved \/ QueryRejected

\* The request of a query ends, with a response or with a failure, so the
\* promise handleSend awaits settles.
SpecChat == InitChat /\ [][NextChat]_vars /\ WF_vars(QueryResolved \/ QueryRejected)

\* C30: at most one query is in flight, and isLoading says whether one is;
\* while one is, the last message is the user's message of that query; an AI
\* message always follows a user message (so a query gets one user message
\* and at most one answer after it); from a state with blank input or a
\* pending query no step appends a user message or starts a query; and
\* isLoading becomes false again after every query.
C30_OneQueryAtATime ==
    /\ [](/\ Len(chat.running) <= 1
          /\ chat.isLoading <=> chat.running # <<>>
          /\ chat.isLoading =>
                /\ chat.messages[Len(chat.messages)].type = "user"
                /\ chat.messages[Len(chat.messages)].content = chat.running[1]
          /\ \A i \in 2..Len(chat.messages) :
                chat.messages[i].type = "ai" => chat.messages[i - 1].type = "user")
    /\ [][(trim(chat.input) = "" \/ chat.isLoading) =>
             /\ Len(chat'.running) <= Len(chat.running)
             /\ \/ Len(chat'.messages) = Len(chat.messages)
                \/ chat'.messages[Len(chat'.messages)].type = "ai"]_vars
    /\ (chat.isLoading ~> ~chat.isLoading)

\* C30 (witness): a query that was rejected, then one that was answered.
C30_Witness ==
    /\ chat.toast = "Error"
    /\ ~chat.isLoading
    /\ Len(chat.messages) = 4
    /\ chat.messages[2].type = "user" /\ chat.messages[3].type = "user"
    /\ chat.messages[4].type = "ai"

=============================================================================
